---------------------------- MODULE Spec2Model ----------------------------
(***************************************************************************)
(* A model of script/AutoSwig/autoswig.py: the identifier normalizer       *)
(* (split_identifier, camel_case, rename_identifier) and the AST passes    *)
(* DefineConstantsPass, DefineRefCountedPass, DefinePropertiesPass,        *)
(* FindFlagEnums, CleanEnumValues and DefineEventsPass, each alone and,    *)
(* for the registered ones, run together as one pipeline.                  *)
(*                                                                         *)
(* Python strings are sequences of one-character strings, so that          *)
(* splitting, stripping and casing are computed and not assumed.  A Python *)
(* call returns a record [err, kind, str, list]: err is "" for a normal    *)
(* return and the exception's name otherwise.                              *)
(*                                                                         *)
(* Each area of the program has its own variables and its own              *)
(* specification; a specification leaves the other areas' variables idle.  *)
(***************************************************************************)
EXTENDS Integers, Sequences, FiniteSets, TLC

VARIABLES
    \* identifier normalizer: the arguments of one call and what it returned
    id_name, id_parent, id_private, id_call, id_ret, id_prev,
    \* DefineRefCountedPass: the class declarations of the tree (rc_tree) and
    \* those already visited, the pass's parent_classes dict, the lines of
    \* _refcounted.i, and one is_subclass_of call with its outcome
    rc_tree, rc_visited, parent_classes, rc_phase, rc_out, rc_query, rc_ret,
    \* DefinePropertiesPass: the class declaration being traversed (pr_tree),
    \* the index of the next visit of the traversal, whether the pass object
    \* has its properties / method_attribs attributes yet, the two
    \* accumulators, the blocks written to the _properties_<dir>.i file, the
    \* diagnostics printed, and what the last visit returned
    pr_tree, pr_pos, pr_phase, pr_defined, properties, method_attribs,
    pr_out, pr_diags, pr_ret,
    \* DefineConstantsPass: the translation unit traversed (ct_tu), the index
    \* of the next declaration, the lines written to _constants.i (ct_fp),
    \* the class attribute cs_code, and what the last visit returned
    ct_tu, ct_pos, ct_phase, ct_fp, cs_code, ct_ret,
    \* FindFlagEnums and CleanEnumValues: the top-level nodes traversed
    \* (en_tu), the dispatch about to happen (node index, ENTER or EXIT, the
    \* pass in registration order), the class attribute flag_enums, the node
    \* identities CleanEnumValues.visit has seen (AstPass.once), the lines
    \* written to _enums.i, and whether flag_enums has been read
    en_tu, en_pos, en_action, en_pass, flag_enums, en_once, en_fp, en_read,
    \* The pipeline of the registered passes: the top-level nodes traversed
    \* (pl_tu), the run (first or second in one process), the lifecycle
    \* phase, the pass and node of the next hook or dispatch, the node
    \* identities each pass instance has seen (AstPass.once), the files of
    \* the output directory, and the files the first run left
    pl_tu, pl_run, pl_phase, pl_pass, pl_pos, pl_action, pl_once, pl_files,
    pl_first,
    \* DefineEventsPass: the children of one namespace in source order
    \* (ev_siblings), the next dispatch (node index, ENTER or EXIT), the
    \* lifecycle phase, the text written to _events.i, whether the file is
    \* closed, and what the last visit returned
    ev_siblings, ev_pos, ev_action, ev_phase, ev_fp, ev_closed, ev_ret

vars_ref ==
    <<rc_tree, rc_visited, parent_classes, rc_phase, rc_out, rc_query, rc_ret>>

vars_ident == <<id_name, id_parent, id_private, id_call, id_ret, id_prev>>

vars_prop ==
    <<pr_tree, pr_pos, pr_phase, pr_defined, properties, method_attribs,
      pr_out, pr_diags, pr_ret>>

vars_const == <<ct_tu, ct_pos, ct_phase, ct_fp, cs_code, ct_ret>>

vars_enum ==
    <<en_tu, en_pos, en_action, en_pass, flag_enums, en_once, en_fp, en_read>>

vars_pipeline ==
    <<pl_tu, pl_run, pl_phase, pl_pass, pl_pos, pl_action, pl_once, pl_files,
      pl_first>>

vars_events ==
    <<ev_siblings, ev_pos, ev_action, ev_phase, ev_fp, ev_closed, ev_ret>>

vars ==
    <<vars_ident, vars_ref, vars_prop, vars_const, vars_enum, vars_pipeline,
      vars_events>>

not_events ==
    <<vars_ident, vars_ref, vars_prop, vars_const, vars_enum, vars_pipeline>>

\* what the actions of one area leave alone
not_ident ==
    <<vars_ref, vars_prop, vars_const, vars_enum, vars_pipeline,
      vars_events>>

not_ref ==
    <<vars_ident, vars_prop, vars_const, vars_enum, vars_pipeline,
      vars_events>>

not_prop ==
    <<vars_ident, vars_ref, vars_const, vars_enum, vars_pipeline,
      vars_events>>

not_const ==
    <<vars_ident, vars_ref, vars_prop, vars_enum, vars_pipeline,
      vars_events>>

\* the pipeline runs the passes on their class attributes cs_code,
\* parent_classes and flag_enums, and leaves the rest alone
not_pipeline ==
    <<vars_ident, vars_prop, rc_tree, rc_visited, rc_phase, rc_out, rc_query,
      rc_ret, ct_tu, ct_pos, ct_phase, ct_fp, ct_ret, en_tu, en_pos, en_action,
      en_pass, en_once, en_fp, en_read, vars_events>>

not_enum ==
    <<vars_ident, vars_ref, vars_prop, vars_const, vars_pipeline,
      vars_events>>

(***************************************************************************)
(* Bounds of the model.                                                    *)
(***************************************************************************)
\* longest enumerated identifier passed as `name`
MaxLen == 3
\* longest enumerated identifier passed as `parent_name`
MaxParentLen == 2
\* number of class names a translation unit may declare
MaxClasses == 4
\* deepest nesting of is_subclass_of calls before the interpreter raises
\* RecursionError (the model's stand-in for sys.getrecursionlimit())
RecursionLimit == 6
\* number of members of the traversed class
MaxMembers == 2
\* number of base specifiers of one class when bases are recorded by name
MaxBases == 1
\* number of declarations of the translation unit DefineConstantsPass visits
MaxDecls == 1
\* number of top-level nodes of the translation unit the enum passes visit
MaxNodes == 2

(***************************************************************************)
(* Python str primitives.                                                  *)
(***************************************************************************)
LowerLetters ==
    <<"a","b","c","d","e","f","g","h","i","j","k","l","m",
      "n","o","p","q","r","s","t","u","v","w","x","y","z">>

UpperLetters ==
    <<"A","B","C","D","E","F","G","H","I","J","K","L","M",
      "N","O","P","Q","R","S","T","U","V","W","X","Y","Z">>

IsUpperChar(c) == \E i \in 1..26 : UpperLetters[i] = c

IsLowerChar(c) == \E i \in 1..26 : LowerLetters[i] = c

\* str.lower() / str.upper() on one character
LowerChar(c) ==
    IF IsUpperChar(c)
    THEN LowerLetters[CHOOSE i \in 1..26 : UpperLetters[i] = c]
    ELSE c

UpperChar(c) ==
    IF IsLowerChar(c)
    THEN UpperLetters[CHOOSE i \in 1..26 : LowerLetters[i] = c]
    ELSE c

StrLower(s) == [i \in 1..Len(s) |-> LowerChar(s[i])]

\* str.isupper(): at least one cased character and no lowercase one
StrIsUpper(s) ==
    /\ \E i \in 1..Len(s) : IsUpperChar(s[i])
    /\ \A i \in 1..Len(s) : ~IsLowerChar(s[i])

Contains(s, c) == \E i \in 1..Len(s) : s[i] = c

\* str.strip('_')
RECURSIVE LStrip(_)
LStrip(s) == IF s # <<>> /\ Head(s) = "_" THEN LStrip(Tail(s)) ELSE s

RECURSIVE RStrip(_)
RStrip(s) ==
    IF s # <<>> /\ s[Len(s)] = "_" THEN RStrip(SubSeq(s, 1, Len(s) - 1)) ELSE s

Strip(s) == RStrip(LStrip(s))

\* str.split('_'): k separators give k + 1 pieces, empty ones included
RECURSIVE SplitUnderscore(_, _)
SplitUnderscore(s, cur) ==
    IF s = <<>> THEN <<cur>>
    ELSE IF Head(s) = "_" THEN <<cur>> \o SplitUnderscore(Tail(s), <<>>)
    ELSE SplitUnderscore(Tail(s), Append(cur, Head(s)))

\* ''.join(parts)
RECURSIVE Join(_)
Join(parts) == IF parts = <<>> THEN <<>> ELSE Head(parts) \o Join(Tail(parts))

(***************************************************************************)
(* Return values.                                                          *)
(***************************************************************************)
RetStr(s) == [err |-> "", kind |-> "str", str |-> s, list |-> <<>>]

RetList(l) == [err |-> "", kind |-> "list", str |-> <<>>, list |-> l]

Raise(e) == [err |-> e, kind |-> "none", str |-> <<>>, list |-> <<>>]

NoRet == [err |-> "", kind |-> "none", str |-> <<>>, list |-> <<>>]

ArgStr(s) == [kind |-> "str", str |-> s, list |-> <<>>]

ArgList(l) == [kind |-> "list", str |-> <<>>, list |-> l]

(***************************************************************************)
(* split_identifier                                                        *)
(***************************************************************************)
\* the loop over i in range(len(identifier) - 1); k is i + 1, one-based
RECURSIVE SplitLoop(_, _, _, _)
SplitLoop(s, k, prev_split, parts) ==
    IF k > Len(s) - 1
    THEN LET last == SubSeq(s, prev_split + 1, Len(s))
         IN  IF last # <<>> THEN Append(parts, StrLower(last)) ELSE parts
    ELSE IF IsUpperChar(s[k + 1])
         THEN SplitLoop(s, k + 1, k,
                        Append(parts, StrLower(SubSeq(s, prev_split + 1, k))))
         ELSE SplitLoop(s, k + 1, prev_split, parts)

split_identifier(identifier) ==
    IF Contains(identifier, "_")
    THEN LET pieces == SplitUnderscore(identifier, <<>>)
         IN  [i \in 1..Len(pieces) |-> StrLower(pieces[i])]
    ELSE SplitLoop(identifier, 1, 0, <<>>)

(***************************************************************************)
(* camel_case                                                              *)
(***************************************************************************)
\* name_parts[i] = name_parts[i][0].upper() + name_parts[i][1:]
Capitalize(part) == <<UpperChar(part[1])>> \o Tail(part)

\* the loop of lines 78-79: indexing an empty part raises IndexError
CapitalizeAll(name_parts) ==
    IF \E i \in 1..Len(name_parts) : name_parts[i] = <<>>
    THEN Raise("IndexError")
    ELSE RetList([i \in 1..Len(name_parts) |-> Capitalize(name_parts[i])])

\* identifier is an argument record: a str or a list of str
camel_case(identifier) ==
    IF identifier.kind # "str"
    THEN \* line 66: a list or tuple has no strip()
         Raise("AttributeError")
    ELSE LET stripped == Strip(identifier.str)
             lowered  == IF StrIsUpper(stripped) /\ ~Contains(stripped, "_")
                         THEN StrLower(stripped) ELSE stripped
             done     == CapitalizeAll(split_identifier(lowered))
         IN  IF done.err # "" THEN done ELSE RetStr(Join(done.list))

(***************************************************************************)
(* rename_identifier                                                       *)
(***************************************************************************)
\* lines 90-97: TRUE when the for loop ends without break and without
\* IndexError, so that `del name_parts[0]` runs
PrefixFromParent(name_parts, parent_parts) ==
    /\ name_parts # <<>>
    /\ \A i \in 1..Len(name_parts[1]) :
          /\ i <= Len(parent_parts)
          /\ parent_parts[i] # <<>>
          /\ name_parts[1][i] = parent_parts[i][1]

rename_identifier(name, parent_name, is_private) ==
    LET name_parts   == split_identifier(name)
        parent_parts == split_identifier(parent_name)
        kept   == IF PrefixFromParent(name_parts, parent_parts)
                  THEN Tail(name_parts) ELSE name_parts
        cased  == camel_case(ArgList(kept))
    IN  IF cased.err # "" THEN cased
        ELSE IF ~is_private THEN RetStr(Join(cased.list))
        ELSE IF cased.list = <<>> \/ cased.list[1] = <<>> THEN Raise("IndexError")
        ELSE \* line 100: str has no tolower()
             Raise("AttributeError")

(***************************************************************************)
(* The identifier normalizer as a state machine: the arguments are chosen  *)
(* initially, then one of the three functions is called on them.  A second *)
(* call may feed the first call's return value back to camel_case.         *)
(***************************************************************************)
Alphabet == {"a", "b", "A", "B", "_", "1"}

Identifiers(n) == UNION {[1..k -> Alphabet] : k \in 0..n}

\* the identifiers of the documented examples
ExampleNames ==
    { <<"G","e","t","M","a","x","H","e","a","l","t","h">>,
      <<"g","e","t","_","m","a","x","_","h","e","a","l","t","h">>,
      <<"k","M","a","x">> }

IdentInit ==
    /\ id_name \in Identifiers(MaxLen) \cup ExampleNames
    /\ id_parent \in Identifiers(MaxParentLen)
    /\ id_private \in BOOLEAN
    /\ id_call = "none"
    /\ id_ret = NoRet
    /\ id_prev = NoRet

IdentIdle ==
    /\ id_name = <<>>
    /\ id_parent = <<>>
    /\ id_private = FALSE
    /\ id_call = "idle"
    /\ id_ret = NoRet
    /\ id_prev = NoRet

\* split_identifier(name)
CallSplitIdentifier ==
    /\ id_call = "none"
    /\ id_call' = "split_identifier"
    /\ id_ret' = RetList(split_identifier(id_name))
    /\ UNCHANGED <<id_name, id_parent, id_private, id_prev>>
    /\ UNCHANGED not_ident

\* camel_case(name)
CallCamelCase ==
    /\ id_call = "none"
    /\ id_call' = "camel_case"
    /\ id_ret' = camel_case(ArgStr(id_name))
    /\ UNCHANGED <<id_name, id_parent, id_private, id_prev>>
    /\ UNCHANGED not_ident

\* camel_case(y) for the y that camel_case(name) returned
CallCamelCaseAgain ==
    /\ id_call = "camel_case"
    /\ id_ret.err = ""
    /\ id_call' = "camel_case_again"
    /\ id_prev' = id_ret
    /\ id_ret' = camel_case(ArgStr(id_ret.str))
    /\ UNCHANGED <<id_name, id_parent, id_private>>
    /\ UNCHANGED not_ident

\* camel_case(parts) for the list that split_identifier(name) returned
CallCamelCaseParts ==
    /\ id_call = "split_identifier"
    /\ id_call' = "camel_case_parts"
    /\ id_prev' = id_ret
    /\ id_ret' = camel_case(ArgList(id_ret.list))
    /\ UNCHANGED <<id_name, id_parent, id_private>>
    /\ UNCHANGED not_ident

\* rename_identifier(name, parent_name, is_private)
CallRenameIdentifier ==
    /\ id_call = "none"
    /\ id_call' = "rename_identifier"
    /\ id_ret' = rename_identifier(id_name, id_parent, id_private)
    /\ UNCHANGED <<id_name, id_parent, id_private, id_prev>>
    /\ UNCHANGED not_ident

IdentNext ==
    \/ CallSplitIdentifier
    \/ CallCamelCase
    \/ CallCamelCaseAgain
    \/ CallCamelCaseParts
    \/ CallRenameIdentifier

(***************************************************************************)
(* DefineRefCountedPass                                                    *)
(***************************************************************************)
RefCountedRoot == "Urho3D::RefCounted"

AllClassNames ==
    <<"Urho3D::RefCounted", "Urho3D::A", "Urho3D::B", "Urho3D::C",
      "Urho3D::D", "Urho3D::E">>

ClassNames == {AllClassNames[i] : i \in 1..MaxClasses}

EmptyDict == [k \in {} |-> {}]

\* lines 248-253: parent_classes[super_fqn].add(sub_fqn), creating the set
AddBase(pc, super_fqn, sub_fqn) ==
    [k \in DOMAIN pc \cup {super_fqn} |->
        IF k = super_fqn
        THEN (IF super_fqn \in DOMAIN pc THEN pc[super_fqn] ELSE {}) \cup {sub_fqn}
        ELSE pc[k]]

\* DefineRefCountedPass.visit on a class or struct declaration: the loop over
\* its CXX_BASE_SPECIFIER children
RECURSIVE RefCountedVisit(_, _, _)
RefCountedVisit(pc, super_fqn, bases) ==
    IF bases = {} THEN pc
    ELSE LET base == CHOOSE b \in bases : TRUE
         IN  RefCountedVisit(AddBase(pc, super_fqn, base), super_fqn,
                             bases \ {base})

\* The outcomes of the for loop of lines 234-237, which iterates a Python set
\* in an order the program does not fix: it returns True at the first call
\* that does, an exception leaves it at the first call that raises, and it
\* falls through to `return False` when every call returned False.
LoopOutcomes(results) ==
    {o \in {"True", "KeyError", "RecursionError"} : \E r \in results : o \in r}
    \cup (IF \A r \in results : "False" \in r THEN {"False"} ELSE {})

\* a variant without the recursion into the bases' own bases
is_subclass_of_direct_only(pc, class_name, base_name, depth) ==
    IF class_name = base_name THEN {"True"}
    ELSE IF class_name \notin DOMAIN pc THEN {"KeyError"}
    ELSE IF base_name \in pc[class_name] THEN {"True"}
    ELSE {"False"}

\* DefineRefCountedPass.is_subclass_of: the set of outcomes the call can have
RECURSIVE is_subclass_of(_, _, _, _)
is_subclass_of(pc, class_name, base_name, depth) ==
    IF depth > RecursionLimit THEN {"RecursionError"}
    ELSE IF class_name = base_name THEN {"True"}
    ELSE IF class_name \notin DOMAIN pc THEN {"KeyError"}
    ELSE IF base_name \in pc[class_name] THEN {"True"}
    ELSE LoopOutcomes({is_subclass_of(pc, subclass, base_name, depth + 1) :
                          subclass \in pc[class_name] \cap DOMAIN pc})

\* DefineRefCountedPass.on_end: the number of URHO3D_REFCOUNTED lines written
\* for each class name, for one choice `pick` of the outcome of each call
RefCountedLines(pc, pick) ==
    [c \in ClassNames |->
        IF c \in DOMAIN pc /\ pick[c] = "True" THEN 1 ELSE 0]

RefInit ==
    /\ rc_tree = EmptyDict
    /\ rc_visited = {}
    /\ parent_classes = EmptyDict
    /\ rc_phase = "visit"
    /\ rc_out = [c \in ClassNames |-> 0]
    /\ rc_query = <<>>
    /\ rc_ret = "none"

RefIdle ==
    /\ rc_tree = EmptyDict
    /\ rc_visited = {}
    /\ parent_classes = EmptyDict
    /\ rc_phase = "idle"
    /\ rc_out = EmptyDict
    /\ rc_query = <<>>
    /\ rc_ret = "none"

\* The traversal reaches the declaration of class c, whose base specifiers
\* name classes declared before it (a base class must be complete).
RefVisitClass(c, bases) ==
    /\ rc_phase = "visit"
    /\ c \notin rc_visited
    /\ bases \subseteq rc_visited
    /\ rc_visited' = rc_visited \cup {c}
    /\ rc_tree' = [k \in DOMAIN rc_tree \cup {c} |->
                      IF k = c THEN bases ELSE rc_tree[k]]
    /\ parent_classes' = RefCountedVisit(parent_classes, c, bases)
    /\ UNCHANGED <<rc_phase, rc_out, rc_query, rc_ret>>
    /\ UNCHANGED not_ref

\* on_end after the traversal; an exception of is_subclass_of leaves on_end
\* before fp.close() with the lines written so far unflushed
RefOnEnd ==
    /\ rc_phase = "visit"
    /\ \E pick \in [DOMAIN parent_classes ->
                       {"True", "False", "KeyError", "RecursionError"}] :
          /\ \A c \in DOMAIN parent_classes :
                pick[c] \in is_subclass_of(parent_classes, c, RefCountedRoot, 1)
          /\ IF \A c \in DOMAIN parent_classes : pick[c] \in {"True", "False"}
             THEN /\ rc_phase' = "ended"
                  /\ rc_out' = RefCountedLines(parent_classes, pick)
             ELSE /\ rc_phase' = "raised"
                  /\ rc_out' = rc_out
    /\ UNCHANGED <<rc_tree, rc_visited, parent_classes, rc_query, rc_ret>>
    /\ UNCHANGED not_ref

\* is_subclass_of(class_name, base_name) called after the traversal, for two
\* classes the translation unit declares
RefQuery(class_name, base_name) ==
    /\ rc_phase = "ended"
    /\ rc_query = <<>>
    /\ {class_name, base_name} \subseteq rc_visited
    /\ rc_query' = <<class_name, base_name>>
    /\ rc_ret' \in is_subclass_of(parent_classes, class_name, base_name, 1)
    /\ UNCHANGED <<rc_tree, rc_visited, parent_classes, rc_phase, rc_out>>
    /\ UNCHANGED not_ref

\* The traversal reaches a class or struct declaration and records its base
\* specifiers under fully-qualified names (lines 245-253).  The names are
\* those get_fully_qualified_name gives: explicit specializations of one
\* template carry the template's name, so a recorded base may be the name
\* of the declaration itself or of one recorded later.
RefVisitNamed(c, bases) ==
    /\ rc_phase = "visit"
    /\ c \notin rc_visited
    /\ Cardinality(bases) <= MaxBases
    /\ rc_visited' = rc_visited \cup {c}
    /\ rc_tree' = [k \in DOMAIN rc_tree \cup {c} |->
                      IF k = c THEN bases ELSE rc_tree[k]]
    /\ parent_classes' = RefCountedVisit(parent_classes, c, bases)
    /\ UNCHANGED <<rc_phase, rc_out, rc_query, rc_ret>>
    /\ UNCHANGED not_ref

RefNamedNext ==
    \/ \E c \in ClassNames, bases \in SUBSET ClassNames : RefVisitNamed(c, bases)
    \/ RefOnEnd
    \/ \E c \in ClassNames, b \in ClassNames : RefQuery(c, b)

RefNext ==
    \/ \E c \in ClassNames, bases \in SUBSET ClassNames : RefVisitClass(c, bases)
    \/ RefOnEnd
    \/ \E c \in ClassNames, b \in ClassNames : RefQuery(c, b)

(***************************************************************************)
(* DefinePropertiesPass                                                    *)
(*                                                                         *)
(* An AST node is a record: kind, spelling (a character sequence), access, *)
(* the static and virtual predicates, the spellings of the parameter types *)
(* (args) and of the result type, and for a class or struct its            *)
(* fully-qualified name and its members.                                   *)
(***************************************************************************)
Str_Get == <<"G", "e", "t">>
Str_Set == <<"S", "e", "t">>
Str_Is == <<"I", "s">>
Str_X == <<"X">>
Str_Y == <<"Y">>
Str_x == <<"x">>
Str_Inner == <<"I", "n", "n", "e", "r">>

Method(spelling, access, static, virtual, args, result) ==
    [kind |-> "CXX_METHOD", spelling |-> spelling, access |-> access,
     static |-> static, virtual |-> virtual, args |-> args, result |-> result,
     fqn |-> "", members |-> <<>>]

Field(spelling, access) ==
    [kind |-> "FIELD_DECL", spelling |-> spelling, access |-> access,
     static |-> FALSE, virtual |-> FALSE, args |-> <<>>, result |-> "int",
     fqn |-> "", members |-> <<>>]

Record(kind, spelling, fqn, members) ==
    [kind |-> kind, spelling |-> spelling, access |-> "public",
     static |-> FALSE, virtual |-> FALSE, args |-> <<>>, result |-> "",
     fqn |-> fqn, members |-> members]

\* a zero-parameter method returning int, and the ways one declaration can
\* differ from it
GetterVariants(spelling) ==
    { Method(spelling, "public", FALSE, FALSE, <<>>, "int"),
      Method(spelling, "private", FALSE, FALSE, <<>>, "int"),
      Method(spelling, "public", TRUE, FALSE, <<>>, "int"),
      Method(spelling, "public", FALSE, TRUE, <<>>, "int"),
      Method(spelling, "public", FALSE, FALSE, <<"int">>, "int"),
      Method(spelling, "public", FALSE, FALSE, <<>>, "void"),
      Method(spelling, "public", FALSE, FALSE, <<>>, "int32_t") }

PlainAndVirtual(spelling) ==
    { Method(spelling, "public", FALSE, virtual, <<>>, "int") :
        virtual \in BOOLEAN }

\* a one-parameter method taking int and returning void, and the ways one
\* declaration can differ from it
SetterVariants(spelling) ==
    { Method(spelling, "public", FALSE, FALSE, <<"int">>, "void"),
      Method(spelling, "private", FALSE, FALSE, <<"int">>, "void"),
      Method(spelling, "public", TRUE, FALSE, <<"int">>, "void"),
      Method(spelling, "public", FALSE, TRUE, <<"int">>, "void"),
      Method(spelling, "public", FALSE, FALSE, <<>>, "void"),
      Method(spelling, "public", FALSE, FALSE, <<"int32_t">>, "void"),
      Method(spelling, "public", FALSE, FALSE, <<"float">>, "void"),
      Method(spelling, "public", FALSE, FALSE, <<"int", "int">>, "void") }

NestedRecords ==
    { Record(kind, Str_Inner, "Urho3D::Outer::Inner", members) :
        kind \in {"CLASS_DECL", "STRUCT_DECL"},
        members \in {<<>>, <<Method(Str_Get \o Str_Y, "public", FALSE, FALSE,
                                    <<>>, "int")>>} }

Members ==
    GetterVariants(Str_Get \o Str_X)
    \cup PlainAndVirtual(Str_Get \o Str_Y)
    \cup PlainAndVirtual(Str_Is \o Str_X)
    \cup SetterVariants(Str_Set \o Str_X)
    \cup {Field(Str_x, "public"), Field(Str_x, "private")}
    \cup NestedRecords

Trees ==
    { Record(kind, <<"O">>, "Urho3D::Outer", members) :
        kind \in {"CLASS_DECL", "STRUCT_DECL"},
        members \in UNION {[1..n -> Members] : n \in 0..MaxMembers} }

\* the typedef int32_t names int; every other modelled type is its own
\* canonical type
Canonical(type) == IF type = "int32_t" THEN "int" ELSE type

\* lines 471-475: the replacements rewrite eastl container and
\* Urho3D::FlagSet spellings and leave every other spelling as it is
CleanType(cstype) ==
    IF cstype = "eastl::basic_string<char, eastl::allocator>"
    THEN "eastl::string" ELSE cstype

StartsWith(s, prefix) ==
    Len(s) >= Len(prefix) /\ SubSeq(s, 1, Len(prefix)) = prefix

\* One visit of the traversal: the coordinator calls visit(node, action) on
\* entering and on leaving every node, depth first, members in source order.
Visit(action, node, parent) ==
    [action |-> action, node |-> node, parent |-> parent]

RECURSIVE MemberVisits(_, _)
MemberVisits(members, parent) ==
    IF members = <<>> THEN <<>>
    ELSE LET m == Head(members)
         IN  <<Visit("ENTER", m, parent)>>
             \o MemberVisits(m.members, m)
             \o <<Visit("EXIT", m, parent)>>
             \o MemberVisits(Tail(members), parent)

Namespace == Record("NAMESPACE", <<>>, "Urho3D", <<>>)

Visits(tree) ==
    <<Visit("ENTER", tree, Namespace)>>
    \o MemberVisits(tree.members, tree)
    \o <<Visit("EXIT", tree, Namespace)>>

\* lines 441-444: the first public child whose camel-cased spelling is the
\* attribute name ends the loop; camel_case may raise on the way
RECURSIVE NameTaken(_, _)
NameTaken(children, attribute_name) ==
    IF children = <<>> THEN "free"
    ELSE LET c == Head(children)
             cased == camel_case(ArgStr(c.spelling))
         IN  IF c.access # "public" THEN NameTaken(Tail(children), attribute_name)
             ELSE IF cased.err # "" THEN cased.err
             ELSE IF cased.str = attribute_name THEN "taken"
             ELSE NameTaken(Tail(children), attribute_name)

\* line 447: the children of the parent that carry the getter's spelling
Overloads(children, spelling) ==
    Cardinality({i \in 1..Len(children) : children[i].spelling = spelling})

\* lines 418-423
AttributeName(getter) ==
    IF StartsWith(getter.spelling, Str_Get)
    THEN SubSeq(getter.spelling, 4, Len(getter.spelling))
    ELSE getter.spelling

\* a variant that does not test for virtual getters
GetterVerdictIgnoringVirtual(getter, parent) ==
    IF getter.kind # "CXX_METHOD" THEN "skip"
    ELSE IF getter.access # "public" THEN "skip"
    ELSE IF getter.static THEN "skip"
    ELSE IF ~StartsWith(getter.spelling, Str_Get)
            /\ ~StartsWith(getter.spelling, Str_Is) THEN "skip"
    ELSE IF Len(getter.args) # 0 THEN "parameters"
    ELSE IF getter.result = "void" THEN "return type"
    ELSE LET taken == NameTaken(parent.members, AttributeName(getter))
         IN  IF taken = "taken" THEN "attr name taken"
             ELSE IF taken # "free" THEN taken
             ELSE IF Overloads(parent.members, getter.spelling) > 1
                  THEN "overloads"
             ELSE "accept"

\* lines 405-449: what visit decides about a node entered: "skip" (return
\* True without a diagnostic), the diagnostic printed when the getter is
\* ignored, the exception raised, or "accept"
GetterVerdict(getter, parent) ==
    IF getter.kind # "CXX_METHOD" THEN "skip"
    ELSE IF getter.access # "public" THEN "skip"
    ELSE IF getter.static THEN "skip"
    ELSE IF ~StartsWith(getter.spelling, Str_Get)
            /\ ~StartsWith(getter.spelling, Str_Is) THEN "skip"
    ELSE IF getter.virtual THEN "virtual"
    ELSE IF Len(getter.args) # 0 THEN "parameters"
    ELSE IF getter.result = "void" THEN "return type"
    ELSE LET taken == NameTaken(parent.members, AttributeName(getter))
         IN  IF taken = "taken" THEN "attr name taken"
             ELSE IF taken # "free" THEN taken
             ELSE IF Overloads(parent.members, getter.spelling) > 1
                  THEN "overloads"
             ELSE "accept"

Diagnostics == {"virtual", "parameters", "return type", "attr name taken", "overloads"}

\* what visit returns after each diagnostic
ReturnAfter(diagnostic) ==
    IF diagnostic \in {"parameters", "return type"} THEN "True" ELSE "False"

\* lines 452-463: find_setter
IsSetterFor(n, getter) ==
    /\ n.access = "public"
    /\ n.kind = "CXX_METHOD"
    /\ ~n.virtual
    /\ ~n.static
    /\ n.spelling = Str_Set \o AttributeName(getter)
    /\ Len(n.args) = 1
    /\ n.args[1] = getter.result

\* lines 464-467: next(filter(find_setter, getter.parent.children)), as the
\* index of the setter among the children, 0 for None
FindSetter(children, getter) ==
    LET found == {i \in 1..Len(children) : IsSetterFor(children[i], getter)}
    IN  IF found = {} THEN 0 ELSE CHOOSE i \in found : \A j \in found : i <= j

PropertyLine(line, type, name) == [line |-> line, type |-> type, name |-> name]

Modifier(cls, name) == [cls |-> cls, name |-> name]

\* lines 468-483: the lines appended for an accepted getter
NewProperties(getter, parent) ==
    LET setter == FindSetter(parent.members, getter)
        cstype == CleanType(Canonical(getter.result))
    IN  <<PropertyLine("decl", cstype, AttributeName(getter)),
          PropertyLine("get", "", getter.spelling)>>
        \o (IF setter # 0
            THEN <<PropertyLine("set", "", parent.members[setter].spelling)>>
            ELSE <<>>)
        \o <<PropertyLine("end", "", <<>>)>>

NewModifiers(getter, parent) ==
    LET setter == FindSetter(parent.members, getter)
    IN  <<Modifier(parent.fqn, getter.spelling)>>
        \o (IF setter # 0
            THEN <<Modifier(parent.fqn, parent.members[setter].spelling)>>
            ELSE <<>>)

PropInit ==
    /\ pr_tree \in Trees
    /\ pr_pos = 1
    /\ pr_phase = "walk"
    /\ pr_defined = FALSE
    /\ properties = <<>>
    /\ method_attribs = <<>>
    /\ pr_out = <<>>
    /\ pr_diags = <<>>
    /\ pr_ret = "none"

PropIdle ==
    /\ pr_tree = <<>>
    /\ pr_pos = 0
    /\ pr_phase = "idle"
    /\ pr_defined = FALSE
    /\ properties = <<>>
    /\ method_attribs = <<>>
    /\ pr_out = <<>>
    /\ pr_diags = <<>>
    /\ pr_ret = "none"

NextVisit == Visits(pr_tree)[pr_pos]

Walking == pr_phase = "walk" /\ pr_pos <= Len(Visits(pr_tree))

\* visit(node, ENTER) for a node that is no method: lines 392-395 and 406-407
PropEnterRecord ==
    /\ Walking
    /\ NextVisit.action = "ENTER"
    /\ NextVisit.node.kind # "CXX_METHOD"
    /\ IF NextVisit.node.kind = "CLASS_DECL"
       THEN /\ pr_defined' = TRUE
            /\ properties' = <<>>
            /\ method_attribs' = <<>>
       ELSE UNCHANGED <<pr_defined, properties, method_attribs>>
    /\ pr_ret' = "True"
    /\ pr_pos' = pr_pos + 1
    /\ UNCHANGED <<pr_tree, pr_phase, pr_out, pr_diags>>
    /\ UNCHANGED not_prop

\* visit(node, EXIT): lines 396-403
PropExit ==
    /\ Walking
    /\ NextVisit.action = "EXIT"
    /\ IF NextVisit.node.kind = "CLASS_DECL" /\ Len(properties) # 0
       THEN pr_out' = Append(pr_out, [cls |-> NextVisit.node.fqn,
                                      properties |-> properties,
                                      method_attribs |-> method_attribs])
       ELSE pr_out' = pr_out
    /\ pr_ret' = "None"
    /\ pr_pos' = pr_pos + 1
    /\ UNCHANGED <<pr_tree, pr_phase, pr_defined, properties, method_attribs,
                   pr_diags>>
    /\ UNCHANGED not_prop

\* visit(method, ENTER) that returns before the getter is accepted: lines
\* 405-449
PropIgnoreMethod ==
    /\ Walking
    /\ NextVisit.action = "ENTER"
    /\ NextVisit.node.kind = "CXX_METHOD"
    /\ LET verdict == GetterVerdict(NextVisit.node, NextVisit.parent)
       IN  /\ verdict \in Diagnostics \cup {"skip"}
           /\ pr_diags' = IF verdict = "skip" THEN pr_diags
                          ELSE Append(pr_diags,
                                      [cls |-> NextVisit.parent.fqn,
                                       name |-> NextVisit.node.spelling,
                                       reason |-> verdict])
           /\ pr_ret' = IF verdict = "skip" THEN "True" ELSE ReturnAfter(verdict)
    /\ pr_pos' = pr_pos + 1
    /\ UNCHANGED <<pr_tree, pr_phase, pr_defined, properties, method_attribs,
                   pr_out>>
    /\ UNCHANGED not_prop

\* visit(method, ENTER) for an accepted getter: lines 451-483 and 572
PropAcceptGetter ==
    /\ Walking
    /\ NextVisit.action = "ENTER"
    /\ NextVisit.node.kind = "CXX_METHOD"
    /\ GetterVerdict(NextVisit.node, NextVisit.parent) = "accept"
    /\ pr_defined
    /\ properties' = properties \o NewProperties(NextVisit.node, NextVisit.parent)
    /\ method_attribs' =
          method_attribs \o NewModifiers(NextVisit.node, NextVisit.parent)
    /\ pr_ret' = "True"
    /\ pr_pos' = pr_pos + 1
    /\ UNCHANGED <<pr_tree, pr_phase, pr_defined, pr_out, pr_diags>>
    /\ UNCHANGED not_prop

\* visit(method, ENTER) that raises: camel_case fails on a sibling's
\* spelling (IndexError), or the getter is accepted before any CLASS_DECL
\* was entered and self.properties does not exist (AttributeError, line 477)
PropRaise ==
    /\ Walking
    /\ NextVisit.action = "ENTER"
    /\ NextVisit.node.kind = "CXX_METHOD"
    /\ LET verdict == GetterVerdict(NextVisit.node, NextVisit.parent)
       IN  /\ verdict \notin Diagnostics \cup {"skip"}
           /\ verdict = "accept" => ~pr_defined
    /\ pr_phase' = "raised"
    /\ pr_ret' = "raised"
    /\ UNCHANGED <<pr_tree, pr_pos, pr_defined, properties, method_attribs,
                   pr_out, pr_diags>>
    /\ UNCHANGED not_prop

PropNext ==
    \/ PropEnterRecord
    \/ PropExit
    \/ PropIgnoreMethod
    \/ PropAcceptGetter
    \/ PropRaise

(***************************************************************************)
(* DefineConstantsPass                                                     *)
(*                                                                         *)
(* An expression node is a record: kind, the raw source text of its extent *)
(* (a character sequence) and its children.  A declaration is a record:    *)
(* kind, spelling, whether its semantic parent is a namespace, whether its *)
(* fully-qualified name belongs to the IsFlagSet / FlagSet family, its     *)
(* type and its children (the initializer, if any).                        *)
(***************************************************************************)
Expr(kind, text, children) == [kind |-> kind, text |-> text, children |-> children]

IntLit(text) == Expr("INTEGER_LITERAL", text, <<>>)

FloatLit(text) == Expr("FLOATING_LITERAL", text, <<>>)

StringLit(text) == Expr("STRING_LITERAL", text, <<>>)

DeclRef(text) == Expr("DECL_REF_EXPR", text, <<>>)

\* an implicit conversion or cleanup node: the extent of its operand
Unexposed(operand) == Expr("UNEXPOSED_EXPR", operand.text, <<operand>>)

Txt_5 == <<"5">>
Txt_5u == <<"5", "u">>
Txt_1p5f == <<"1", ".", "5", "f">>
Txt_a == <<"a">>
Txt_b == <<"b">>
Txt_names == <<"n", "a", "m", "e", "s">>
Txt_plus == <<" ", "+", " ">>
Txt_quoted_f == <<"\"", "f", "\"">>
Txt_quoted_a_b == <<"\"", "a", " ", "b", "\"">>

\* initializers of declarations of builtin type
NumericInits ==
    { <<>>,
      <<IntLit(Txt_5)>>,
      <<IntLit(Txt_5u)>>,
      <<FloatLit(Txt_1p5f)>>,
      <<Unexposed(IntLit(Txt_5))>>,
      <<DeclRef(Txt_a)>>,
      <<Expr("UNARY_OPERATOR", <<"-">> \o Txt_5, <<IntLit(Txt_5)>>)>>,
      <<Expr("BINARY_OPERATOR", Txt_a \o Txt_plus \o Txt_b,
             <<Unexposed(DeclRef(Txt_a)), Unexposed(DeclRef(Txt_b))>>)>>,
      <<Expr("BINARY_OPERATOR", Txt_a \o Txt_plus \o Txt_5,
             <<Unexposed(DeclRef(Txt_a)), IntLit(Txt_5)>>)>> }

\* initializers of declarations of type const ea::string
StringInits ==
    { <<>>,
      <<Unexposed(StringLit(Txt_quoted_f))>>,
      <<Unexposed(StringLit(Txt_quoted_a_b))>>,
      <<Expr("CALL_EXPR", Txt_names, <<DeclRef(Txt_names)>>)>>,
      <<Unexposed(Expr("CALL_EXPR", Txt_a \o Txt_plus \o Txt_quoted_f,
                       <<DeclRef(Txt_a), StringLit(Txt_quoted_f)>>))>>,
      <<Unexposed(Expr("CALL_EXPR", Txt_a \o <<"+">> \o Txt_quoted_f,
                       <<DeclRef(Txt_a), StringLit(Txt_quoted_f)>>))>> }

EnumInits == { <<DeclRef(<<"M", "O", "D", "E", "_", "A">>)>> }

\* type.spelling, the same without a leading "const " (rx_deconst),
\* is_const_qualified(), is_builtin_type(), get_canonical().kind
Type(spelling, bare, const, builtin, kind) ==
    [spelling |-> spelling, bare |-> bare, const |-> const,
     builtin |-> builtin, kind |-> kind]

NumericTypes ==
    { Type("const int", "int", TRUE, TRUE, "INT"),
      Type("const unsigned int", "unsigned int", TRUE, TRUE, "UINT"),
      Type("const float", "float", TRUE, TRUE, "FLOAT"),
      Type("const long double", "long double", TRUE, TRUE, "LONGDOUBLE"),
      Type("int", "int", FALSE, TRUE, "INT") }

StringTypes == { Type("const ea::string", "ea::string", TRUE, FALSE, "RECORD") }

EnumTypes == { Type("const Urho3D::Mode", "Urho3D::Mode", TRUE, FALSE, "ENUM") }

\* builtin_to_cs, lines 18-44, for the modelled kinds; "" for a KeyError
BuiltinToCs(kind) ==
    CASE kind = "INT" -> "int"
      [] kind = "UINT" -> "uint"
      [] kind = "FLOAT" -> "float"
      [] OTHER -> ""

VarNames ==
    { <<"k", "M", "a", "x">>, <<"E", "_", "X">>, <<"P", "_", "X">>,
      <<"M", "A", "X", "_", "N">> }

VarDecl(spelling, in_namespace, flagset_family, type, children) ==
    [kind |-> "VAR_DECL", spelling |-> spelling, in_namespace |-> in_namespace,
     flagset_family |-> flagset_family, type |-> type, children |-> children]

FunctionDecl(spelling) ==
    [kind |-> "FUNCTION_DECL", spelling |-> spelling, in_namespace |-> TRUE,
     flagset_family |-> FALSE,
     type |-> Type("void ()", "void ()", FALSE, FALSE, "FUNCTIONPROTO"),
     children |-> <<>>]

\* every type with every initializer it admits, under one name; every
\* name, scope and family with one type and initializer; two functions
Decls ==
    { VarDecl(<<"k", "M", "a", "x">>, TRUE, FALSE, t, init) :
        t \in NumericTypes, init \in NumericInits }
    \cup { VarDecl(<<"k", "M", "a", "x">>, TRUE, FALSE, t, init) :
             t \in StringTypes, init \in StringInits }
    \cup { VarDecl(<<"k", "M", "a", "x">>, TRUE, FALSE, t, init) :
             t \in EnumTypes, init \in EnumInits }
    \cup { VarDecl(n, ns, fam, Type("const int", "int", TRUE, TRUE, "INT"),
                   <<IntLit(Txt_5)>>) :
             n \in VarNames, ns \in BOOLEAN, fam \in BOOLEAN }
    \cup { FunctionDecl(n) :
             n \in {<<"o", "p", "e", "r", "a", "t", "o", "r", "+">>, <<"f">>} }

\* a translation unit: whether its spelling ends with /MathDefs.h, and its
\* declarations in source order
TranslationUnits ==
    { [mathdefs |-> m, decls |-> d] :
        m \in BOOLEAN, d \in UNION {[1..n -> Decls] : n \in 0..MaxDecls} }

\* node.find_child(kind=...): the first direct child of that kind
FindChild(node, kind) ==
    LET found == {i \in 1..Len(node.children) : node.children[i].kind = kind}
    IN  IF found = {} THEN <<>>
        ELSE <<node.children[CHOOSE i \in found : \A j \in found : i <= j]>>

\* node.find_any_child(kind=...): the first node of that kind below node, in
\* depth-first order
RECURSIVE FindAnyIn(_, _)
FindAnyIn(nodes, kind) ==
    IF nodes = <<>> THEN <<>>
    ELSE IF Head(nodes).kind = kind THEN <<Head(nodes)>>
    ELSE LET below == FindAnyIn(Head(nodes).children, kind)
         IN  IF below # <<>> THEN below ELSE FindAnyIn(Tail(nodes), kind)

FindAnyChild(node, kind) == FindAnyIn(node.children, kind)

\* str.rstrip(chars)
RECURSIVE RStripChars(_, _)
RStripChars(text, chars) ==
    IF text # <<>> /\ text[Len(text)] \in chars
    THEN RStripChars(SubSeq(text, 1, Len(text) - 1), chars)
    ELSE text

Some(text) == [some |-> TRUE, text |-> text]

None == [some |-> FALSE, text |-> <<>>]

\* `if value:` on a str or None
Truthy(value) == value.some /\ value.text # <<>>

\* get_constant_value on an expression node.  The pattern of line 141 ends
\* in a ';', which the extent of an expression does not hold, so re.sub
\* leaves such a text as it is.
get_constant_value(node) ==
    LET ln == IF Contains(node.text, "=")
              THEN node.text
              ELSE RStripChars(node.text, {"\\", "s", "\n", ";"})
    IN  IF Contains(ln, " ") THEN None ELSE Some(ln)

\* lines 166-187: the value and the target type name of a const declaration
ConstantValue(node) ==
    IF node.type.spelling \in {"const ea::string", "const char*"}
    THEN LET node_expr == FindChild(node, "UNEXPOSED_EXPR")
         IN  IF node_expr # <<>>
             THEN [value |-> get_constant_value(node_expr[1]),
                   type_name |-> "string"]
             ELSE [value |-> None, type_name |-> node.type.bare]
    ELSE IF node.type.builtin
    THEN LET int_literal == FindAnyChild(node, "INTEGER_LITERAL")
             literal == IF int_literal # <<>> THEN int_literal
                        ELSE FindAnyChild(node, "FLOATING_LITERAL")
             raw == IF literal # <<>> THEN get_constant_value(literal[1])
                    ELSE None
             suffixed ==
                 IF node.type.kind \in {"CHAR16", "CHAR32", "USHORT", "UINT",
                                        "ULONG", "ULONGLONG", "UINT128"}
                 THEN Some(RStripChars(raw.text, {"U", "u"}) \o <<"U">>)
                 ELSE IF node.type.kind = "FLOAT"
                 THEN Some(RStripChars(raw.text, {"F", "f"}) \o <<"f">>)
                 ELSE raw
         IN  IF ~Truthy(raw)
             THEN [value |-> raw, type_name |-> node.type.bare]
             ELSE IF BuiltinToCs(node.type.kind) = ""
             THEN [value |-> None, type_name |-> node.type.bare]
             ELSE [value |-> suffixed, type_name |-> BuiltinToCs(node.type.kind)]
    ELSE [value |-> None, type_name |-> node.type.bare]

\* line 203: re.match(r'^operator[^\w]+.*$', spelling) is not None
IsOperatorName(spelling) ==
    /\ StartsWith(spelling, <<"o", "p", "e", "r", "a", "t", "o", "r">>)
    /\ Len(spelling) > 8
    /\ ~IsLowerChar(spelling[9])
    /\ ~IsUpperChar(spelling[9])
    /\ spelling[9] \notin {"_", "0", "1", "2", "3", "4", "5", "6", "7", "8", "9"}

\* lines 156-157
SkippedByName(node) ==
    \/ node.flagset_family
    \/ StartsWith(node.spelling, <<"E", "_">>)
    \/ StartsWith(node.spelling, <<"P", "_">>)

IgnoreLine(node) ==
    [line |-> "%ignore", name |-> node.spelling, type |-> "", idiom |-> <<>>,
     enum |-> FALSE]

ConstantLine(node, type_name, idiomatic_name) ==
    [line |-> "%constant", name |-> node.spelling, type |-> type_name,
     idiom |-> idiomatic_name, enum |-> node.type.kind = "ENUM"]

CsConst(type_name, idiomatic_name, value) ==
    [type |-> type_name, idiom |-> idiomatic_name, value |-> value]

ConstInit ==
    /\ ct_tu \in TranslationUnits
    /\ ct_pos = 0
    /\ ct_phase = "walk"
    /\ ct_fp = <<>>
    /\ cs_code = <<>>
    /\ ct_ret = "none"

ConstIdle ==
    /\ ct_tu = <<>>
    /\ ct_pos = 0
    /\ ct_phase = "idle"
    /\ ct_fp = <<>>
    /\ cs_code = <<>>
    /\ ct_ret = "none"

\* visit of the TRANSLATION_UNIT node: lines 151-152 return False for
\* MathDefs.h, and the pass does not descend into it
ConstVisitRoot ==
    /\ ct_phase = "walk"
    /\ ct_pos = 0
    /\ IF ct_tu.mathdefs
       THEN ct_ret' = "False" /\ ct_phase' = "pruned" /\ ct_pos' = ct_pos
       ELSE ct_ret' = "True" /\ ct_phase' = ct_phase /\ ct_pos' = 1
    /\ UNCHANGED <<ct_tu, ct_fp, cs_code>>
    /\ UNCHANGED not_const

NextDecl == ct_tu.decls[ct_pos]

AtDecl == ct_phase = "walk" /\ ct_pos >= 1 /\ ct_pos <= Len(ct_tu.decls)

\* visit of a node that writes nothing: a declaration that is no
\* namespace-scope variable (lines 201-211), or one skipped by its name
\* (lines 156-158) or for not being const (lines 162-164)
ConstVisitSkipped ==
    /\ AtDecl
    /\ \/ NextDecl.kind # "VAR_DECL"
       \/ ~NextDecl.in_namespace
       \/ SkippedByName(NextDecl)
       \/ /\ camel_case(ArgStr(NextDecl.spelling)).err = ""
          /\ ~NextDecl.type.const
    /\ ct_ret' = IF NextDecl.kind = "VAR_DECL" /\ NextDecl.in_namespace
                 THEN "False"
                 ELSE IF IsOperatorName(NextDecl.spelling)
                 THEN "False" ELSE "True"
    /\ ct_pos' = ct_pos + 1
    /\ UNCHANGED <<ct_tu, ct_phase, ct_fp, cs_code>>
    /\ UNCHANGED not_const

\* visit of a const namespace-scope variable: lines 160-199
ConstVisitConstant ==
    /\ AtDecl
    /\ NextDecl.kind = "VAR_DECL"
    /\ NextDecl.in_namespace
    /\ ~SkippedByName(NextDecl)
    /\ camel_case(ArgStr(NextDecl.spelling)).err = ""
    /\ NextDecl.type.const
    /\ LET idiomatic_name == camel_case(ArgStr(NextDecl.spelling)).str
           found == ConstantValue(NextDecl)
       IN  IF Truthy(found.value)
           THEN /\ ct_fp' = Append(ct_fp, IgnoreLine(NextDecl))
                /\ cs_code' = Append(cs_code,
                                     CsConst(found.type_name, idiomatic_name,
                                             found.value.text))
           ELSE /\ ct_fp' = ct_fp \o <<IgnoreLine(NextDecl),
                                       ConstantLine(NextDecl, found.type_name,
                                                    idiomatic_name)>>
                /\ cs_code' = cs_code
    /\ ct_ret' = "True"
    /\ ct_pos' = ct_pos + 1
    /\ UNCHANGED <<ct_tu, ct_phase>>
    /\ UNCHANGED not_const

ConstNext ==
    \/ ConstVisitRoot
    \/ ConstVisitSkipped
    \/ ConstVisitConstant

(***************************************************************************)
(* FindFlagEnums and CleanEnumValues                                       *)
(*                                                                         *)
(* A node is a record: kind, spelling, type spelling (of an ENUM_DECL: its *)
(* own; of an IsFlagSet struct: that of children[0]; of a type alias: that *)
(* of children[1]), whether the canonical type of an alias starts with     *)
(* Urho3D::FlagSet<, and the enum constants below an ENUM_DECL.            *)
(***************************************************************************)
EnumConstant(spelling, from_sdl) ==
    [spelling |-> spelling, from_sdl |-> from_sdl,
     enum_value |-> IF from_sdl THEN "4" ELSE "1"]

EnumDecl(type_spelling, children) ==
    [kind |-> "ENUM_DECL", spelling |-> type_spelling,
     type_spelling |-> type_spelling, flagset |-> FALSE, children |-> children]

StructDecl(spelling, first_child_type) ==
    [kind |-> "STRUCT_DECL", spelling |-> spelling,
     type_spelling |-> first_child_type, flagset |-> FALSE, children |-> <<>>]

TypeAlias(spelling, flagset, second_child_type) ==
    [kind |-> "TYPE_ALIAS_DECL", spelling |-> spelling,
     type_spelling |-> second_child_type, flagset |-> flagset,
     children |-> <<>>]

EnumSpellings == {"Urho3D::DrawMode", "Urho3D::Key"}

EnumNodes ==
    { EnumDecl(e, <<EnumConstant("FIRST", sdl)>>) :
        e \in EnumSpellings, sdl \in BOOLEAN }
    \cup { EnumDecl("SDL_Keycode", <<EnumConstant("SDLK_A", TRUE)>>) }
    \cup { StructDecl("IsFlagSet", e) : e \in EnumSpellings }
    \cup { StructDecl("Other", "int") }
    \cup { TypeAlias("DrawModeFlags", TRUE, "Urho3D::DrawMode"),
           TypeAlias("Index", FALSE, "int") }

\* no enumeration is declared twice in one translation unit
EnumTranslationUnits ==
    { tu \in UNION {[1..n -> EnumNodes] : n \in 0..MaxNodes} :
        \A i, j \in 1..Len(tu) :
            (/\ tu[i].kind = "ENUM_DECL"
             /\ tu[j].kind = "ENUM_DECL"
             /\ tu[i].spelling = tu[j].spelling) => i = j }

\* lines 709-710: FindFlagEnums is registered before CleanEnumValues
EnumPasses == <<"FindFlagEnums", "CleanEnumValues">>

FlagsLine(type_spelling) ==
    [line |-> "csattributes", name |-> type_spelling, value |-> ""]

CsConstValueLine(child) ==
    [line |-> "csconstvalue", name |-> child.spelling,
     value |-> child.enum_value]

AliasLines(node) ==
    << [line |-> "using", name |-> node.spelling, value |-> node.type_spelling],
       [line |-> "ctype", name |-> node.spelling, value |-> "size_t"],
       [line |-> "out", name |-> node.spelling, value |-> ""] >>

\* lines 602-607: one %csconstvalue per constant whose code holds ' = SDL'
RECURSIVE SdlLines(_)
SdlLines(children) ==
    IF children = <<>> THEN <<>>
    ELSE (IF Head(children).from_sdl THEN <<CsConstValueLine(Head(children))>>
          ELSE <<>>) \o SdlLines(Tail(children))

\* lines 597-619, on a node not seen before
CleanLines(node, registry) ==
    IF node.kind = "ENUM_DECL"
    THEN (IF Contains(registry, node.type_spelling)
          THEN <<FlagsLine(node.type_spelling)>> ELSE <<>>)
         \o (IF node.type_spelling \in EnumSpellings
             THEN SdlLines(node.children) ELSE <<>>)
    ELSE IF node.kind = "TYPE_ALIAS_DECL" /\ node.flagset
    THEN AliasLines(node)
    ELSE <<>>

EnumInit ==
    /\ en_tu \in EnumTranslationUnits
    /\ en_pos = 1
    /\ en_action = "ENTER"
    /\ en_pass = 1
    /\ flag_enums = <<>>
    /\ en_once = {}
    /\ en_fp = <<>>
    /\ en_read = FALSE

EnumIdle ==
    /\ en_tu = <<>>
    /\ en_pos = 0
    /\ en_action = "idle"
    /\ en_pass = 0
    /\ flag_enums = <<>>
    /\ en_once = {}
    /\ en_fp = <<>>
    /\ en_read = FALSE

EnumWalking == en_action \in {"ENTER", "EXIT"} /\ en_pos <= Len(en_tu)

\* the dispatch after this one: the next pass on the same node and
\* action, then the node's EXIT, then the next node
EnumAdvance ==
    IF en_pass < Len(EnumPasses)
    THEN en_pass' = en_pass + 1 /\ UNCHANGED <<en_pos, en_action>>
    ELSE /\ en_pass' = 1
         /\ IF en_action = "ENTER"
            THEN en_action' = "EXIT" /\ en_pos' = en_pos
            ELSE en_action' = "ENTER" /\ en_pos' = en_pos + 1

IsMarker(node) == node.kind = "STRUCT_DECL" /\ node.spelling = "IsFlagSet"

\* FindFlagEnums.visit on an IsFlagSet struct: lines 579-582
FindFlagEnumsVisitMarker ==
    /\ EnumWalking
    /\ EnumPasses[en_pass] = "FindFlagEnums"
    /\ IsMarker(en_tu[en_pos])
    /\ flag_enums' = Append(flag_enums, en_tu[en_pos].type_spelling)
    /\ EnumAdvance
    /\ UNCHANGED <<en_tu, en_once, en_fp, en_read>>
    /\ UNCHANGED not_enum

\* FindFlagEnums.visit on any other node: line 584
FindFlagEnumsVisitOther ==
    /\ EnumWalking
    /\ EnumPasses[en_pass] = "FindFlagEnums"
    /\ ~IsMarker(en_tu[en_pos])
    /\ EnumAdvance
    /\ UNCHANGED <<en_tu, flag_enums, en_once, en_fp, en_read>>
    /\ UNCHANGED not_enum

\* CleanEnumValues.visit on a node seen for the first time: lines 597-619
CleanEnumValuesVisit ==
    /\ EnumWalking
    /\ EnumPasses[en_pass] = "CleanEnumValues"
    /\ en_pos \notin en_once
    /\ en_once' = en_once \cup {en_pos}
    /\ en_fp' = en_fp \o CleanLines(en_tu[en_pos], flag_enums)
    /\ en_read' = (en_read \/ en_tu[en_pos].kind = "ENUM_DECL")
    /\ EnumAdvance
    /\ UNCHANGED <<en_tu, flag_enums>>
    /\ UNCHANGED not_enum

\* CleanEnumValues.visit on a node seen before: AstPass.once
CleanEnumValuesVisitAgain ==
    /\ EnumWalking
    /\ EnumPasses[en_pass] = "CleanEnumValues"
    /\ en_pos \in en_once
    /\ EnumAdvance
    /\ UNCHANGED <<en_tu, flag_enums, en_once, en_fp, en_read>>
    /\ UNCHANGED not_enum

EnumNext ==
    \/ FindFlagEnumsVisitMarker
    \/ FindFlagEnumsVisitOther
    \/ CleanEnumValuesVisit
    \/ CleanEnumValuesVisitAgain

(***************************************************************************)
(* The pipeline: on_begin of every registered pass, one traversal in which *)
(* every node is dispatched, on ENTER and on EXIT, to every pass in        *)
(* registration order, then on_end of every pass.  The class attributes    *)
(* cs_code, parent_classes and flag_enums live as long as the process; a   *)
(* second run in the process gets new pass instances and finds the class   *)
(* attributes and the output directory as the first run left them.         *)
(***************************************************************************)
\* lines 709-710
RegisteredPasses ==
    <<"DefineConstantsPass", "DefineRefCountedPass", "FindFlagEnums",
      "CleanEnumValues", "DefineEventsPass">>

\* the registered passes that define on_begin (lines 127, 590, 626)
BeginHooks == <<"DefineConstantsPass", "CleanEnumValues", "DefineEventsPass">>

\* the registered passes that define on_end (lines 131, 218, 594, 635)
EndHooks ==
    <<"DefineConstantsPass", "DefineRefCountedPass", "CleanEnumValues",
      "DefineEventsPass">>

\* the outputs attributes of the registered passes
Artifacts == {"_constants.i", "_refcounted.i", "_enums.i", "_events.i"}

ClassDecl(fqn, bases) ==
    [kind |-> "CLASS_DECL", spelling |-> fqn, bases |-> bases]

PipelineNodes ==
    { VarDecl(<<"k", "M", "a", "x">>, TRUE, FALSE,
              Type("const int", "int", TRUE, TRUE, "INT"), <<IntLit(Txt_5)>>),
      VarDecl(<<"k", "M", "a", "x">>, TRUE, FALSE,
              Type("const int", "int", TRUE, TRUE, "INT"), <<DeclRef(Txt_a)>>),
      ClassDecl("Urho3D::A", {RefCountedRoot}),
      ClassDecl("Urho3D::B", {}),
      EnumDecl("Urho3D::DrawMode", <<EnumConstant("FIRST", FALSE)>>),
      StructDecl("IsFlagSet", "Urho3D::DrawMode") }

\* no name is declared twice in one translation unit
PipelineTrees ==
    { tu \in UNION {[1..n -> PipelineNodes] : n \in 0..MaxNodes} :
        \A i, j \in 1..Len(tu) :
            (tu[i].kind = tu[j].kind /\ tu[i].spelling = tu[j].spelling)
                => i = j }

Missing == [exists |-> FALSE, lines |-> <<>>]

\* open(path, 'w+'): the file exists and is empty
Truncated == [exists |-> TRUE, lines |-> <<>>]

Written(file, lines) == [exists |-> TRUE, lines |-> file.lines \o lines]

TextLine(text) == [line |-> text]

\* lines 153-199 on a node: what goes to _constants.i and to cs_code
ConstantsWritten(node) ==
    IF /\ node.kind = "VAR_DECL"
       /\ node.in_namespace
       /\ ~SkippedByName(node)
       /\ node.type.const
    THEN LET idiomatic_name == camel_case(ArgStr(node.spelling)).str
             found == ConstantValue(node)
         IN  IF Truthy(found.value)
             THEN [fp |-> <<IgnoreLine(node)>>,
                   code |-> <<CsConst(found.type_name, idiomatic_name,
                                      found.value.text)>>]
             ELSE [fp |-> <<IgnoreLine(node),
                            ConstantLine(node, found.type_name,
                                         idiomatic_name)>>,
                   code |-> <<>>]
    ELSE [fp |-> <<>>, code |-> <<>>]

\* lines 221-224: one line per key of parent_classes that reaches the root,
\* the keys in the order the traversal inserted them
RECURSIVE RefCountedFile(_, _)
RefCountedFile(nodes, pc) ==
    IF nodes = <<>> THEN <<>>
    ELSE (IF /\ Head(nodes).kind = "CLASS_DECL"
             /\ Head(nodes).spelling \in DOMAIN pc
             /\ "True" \in is_subclass_of(pc, Head(nodes).spelling,
                                          RefCountedRoot, 1)
          THEN <<[line |-> "URHO3D_REFCOUNTED", name |-> Head(nodes).spelling]>>
          ELSE <<>>) \o RefCountedFile(Tail(nodes), pc)

\* lines 628-632 and 636
EventsHeader ==
    <<TextLine("%pragma(csharp) moduleimports=%{"),
      TextLine("public static class E"), TextLine("{")>>

EventsFooter == <<TextLine("}"), TextLine("%}")>>

PipelineInit ==
    /\ pl_tu \in PipelineTrees
    /\ pl_run = 1
    /\ pl_phase = "begin"
    /\ pl_pass = 1
    /\ pl_pos = 1
    /\ pl_action = "ENTER"
    /\ pl_once = [p \in {"DefineConstantsPass", "DefineRefCountedPass",
                         "CleanEnumValues"} |-> {}]
    /\ pl_files = [f \in Artifacts |-> Missing]
    /\ pl_first = <<>>

PipelineIdle ==
    /\ pl_tu = <<>>
    /\ pl_run = 0
    /\ pl_phase = "idle"
    /\ pl_pass = 0
    /\ pl_pos = 0
    /\ pl_action = "idle"
    /\ pl_once = <<>>
    /\ pl_files = <<>>
    /\ pl_first = <<>>

\* after an on_begin hook: the next one, or the traversal
AfterBegin ==
    /\ IF pl_pass < Len(BeginHooks)
       THEN pl_pass' = pl_pass + 1 /\ pl_phase' = pl_phase
       ELSE pl_pass' = 1 /\ pl_phase' = IF pl_tu = <<>> THEN "end" ELSE "walk"
    /\ UNCHANGED <<pl_tu, pl_run, pl_pos, pl_action, pl_first>>

\* after a dispatch: the next pass on the same node and action, then the
\* node's EXIT, then the next node, then the on_end hooks
AfterDispatch ==
    /\ IF pl_pass < Len(RegisteredPasses)
       THEN /\ pl_pass' = pl_pass + 1
            /\ UNCHANGED <<pl_pos, pl_action, pl_phase>>
       ELSE /\ pl_pass' = 1
            /\ IF pl_action = "ENTER"
               THEN pl_action' = "EXIT" /\ UNCHANGED <<pl_pos, pl_phase>>
               ELSE /\ pl_action' = "ENTER"
                    /\ IF pl_pos < Len(pl_tu)
                       THEN pl_pos' = pl_pos + 1 /\ pl_phase' = pl_phase
                       ELSE pl_pos' = 1 /\ pl_phase' = "end"
    /\ UNCHANGED <<pl_tu, pl_run, pl_first>>

\* after an on_end hook: the next one, or the end of the run
AfterEnd ==
    /\ IF pl_pass < Len(EndHooks)
       THEN pl_pass' = pl_pass + 1 /\ pl_phase' = pl_phase
       ELSE pl_pass' = 1 /\ pl_phase' = "done"
    /\ UNCHANGED <<pl_tu, pl_run, pl_pos, pl_action, pl_first>>

AtBegin(pass) == pl_phase = "begin" /\ BeginHooks[pl_pass] = pass

AtVisit(pass) == pl_phase = "walk" /\ RegisteredPasses[pl_pass] = pass

AtEnd(pass) == pl_phase = "end" /\ EndHooks[pl_pass] = pass

\* AstPass.once: whether this pass instance sees the node for the first time
FirstVisit(pass) == pl_pos \notin pl_once[pass]

Seen(pass) == [pl_once EXCEPT ![pass] = @ \cup {pl_pos}]

\* DefineConstantsPass.on_begin, lines 127-129
DefineConstantsOnBegin ==
    /\ AtBegin("DefineConstantsPass")
    /\ pl_files' = [pl_files EXCEPT !["_constants.i"] = Truncated]
    /\ AfterBegin
    /\ UNCHANGED <<pl_once, cs_code, parent_classes, flag_enums>>
    /\ UNCHANGED not_pipeline

\* CleanEnumValues.on_begin, lines 590-592
CleanEnumValuesOnBegin ==
    /\ AtBegin("CleanEnumValues")
    /\ pl_files' = [pl_files EXCEPT !["_enums.i"] = Truncated]
    /\ AfterBegin
    /\ UNCHANGED <<pl_once, cs_code, parent_classes, flag_enums>>
    /\ UNCHANGED not_pipeline

\* DefineEventsPass.on_begin, lines 626-633
DefineEventsOnBegin ==
    /\ AtBegin("DefineEventsPass")
    /\ pl_files' = [pl_files EXCEPT
                       !["_events.i"] = Written(Truncated, EventsHeader)]
    /\ AfterBegin
    /\ UNCHANGED <<pl_once, cs_code, parent_classes, flag_enums>>
    /\ UNCHANGED not_pipeline

\* DefineConstantsPass.visit, lines 149-211
DispatchConstants ==
    /\ AtVisit("DefineConstantsPass")
    /\ LET written == IF FirstVisit("DefineConstantsPass")
                      THEN ConstantsWritten(pl_tu[pl_pos])
                      ELSE [fp |-> <<>>, code |-> <<>>]
       IN  /\ pl_files' = [pl_files EXCEPT
                              !["_constants.i"] = Written(@, written.fp)]
           /\ cs_code' = cs_code \o written.code
    /\ pl_once' = Seen("DefineConstantsPass")
    /\ AfterDispatch
    /\ UNCHANGED <<parent_classes, flag_enums>>
    /\ UNCHANGED not_pipeline

\* DefineRefCountedPass.visit, lines 240-255
DispatchRefCounted ==
    /\ AtVisit("DefineRefCountedPass")
    /\ parent_classes' =
          IF FirstVisit("DefineRefCountedPass")
             /\ pl_tu[pl_pos].kind = "CLASS_DECL"
          THEN RefCountedVisit(parent_classes, pl_tu[pl_pos].spelling,
                               pl_tu[pl_pos].bases)
          ELSE parent_classes
    /\ pl_once' = Seen("DefineRefCountedPass")
    /\ AfterDispatch
    /\ UNCHANGED <<pl_files, cs_code, flag_enums>>
    /\ UNCHANGED not_pipeline

\* FindFlagEnums.visit, lines 578-584
DispatchFindFlagEnums ==
    /\ AtVisit("FindFlagEnums")
    /\ flag_enums' = IF IsMarker(pl_tu[pl_pos])
                     THEN Append(flag_enums, pl_tu[pl_pos].type_spelling)
                     ELSE flag_enums
    /\ AfterDispatch
    /\ UNCHANGED <<pl_files, pl_once, cs_code, parent_classes>>
    /\ UNCHANGED not_pipeline

\* CleanEnumValues.visit, lines 596-619
DispatchCleanEnumValues ==
    /\ AtVisit("CleanEnumValues")
    /\ pl_files' =
          IF FirstVisit("CleanEnumValues")
             /\ pl_tu[pl_pos].kind \in {"ENUM_DECL", "TYPE_ALIAS_DECL"}
          THEN [pl_files EXCEPT
                   !["_enums.i"] =
                       Written(@, CleanLines(pl_tu[pl_pos], flag_enums))]
          ELSE pl_files
    /\ pl_once' = Seen("CleanEnumValues")
    /\ AfterDispatch
    /\ UNCHANGED <<cs_code, parent_classes, flag_enums>>
    /\ UNCHANGED not_pipeline

\* DefineEventsPass.visit, lines 639-665, on a node that is no E_ constant
\* of type const Urho3D::StringHash: line 665
DispatchEvents ==
    /\ AtVisit("DefineEventsPass")
    /\ ~(/\ pl_tu[pl_pos].kind = "VAR_DECL"
         /\ pl_tu[pl_pos].type.spelling = "const Urho3D::StringHash"
         /\ StartsWith(pl_tu[pl_pos].spelling, <<"E", "_">>))
    /\ AfterDispatch
    /\ UNCHANGED <<pl_files, pl_once, cs_code, parent_classes, flag_enums>>
    /\ UNCHANGED not_pipeline

\* DefineConstantsPass.on_end, lines 131-135
DefineConstantsOnEnd ==
    /\ AtEnd("DefineConstantsPass")
    /\ pl_files' =
          [pl_files EXCEPT
              !["_constants.i"] =
                  Written(@, <<TextLine("%pragma(csharp) modulecode=%{")>>
                             \o cs_code \o <<TextLine("%}")>>)]
    /\ AfterEnd
    /\ UNCHANGED <<pl_once, cs_code, parent_classes, flag_enums>>
    /\ UNCHANGED not_pipeline

\* DefineRefCountedPass.on_end, lines 218-226
DefineRefCountedOnEnd ==
    /\ AtEnd("DefineRefCountedPass")
    /\ pl_files' =
          [pl_files EXCEPT
              !["_refcounted.i"] =
                  Written(Truncated, RefCountedFile(pl_tu, parent_classes))]
    /\ AfterEnd
    /\ UNCHANGED <<pl_once, cs_code, parent_classes, flag_enums>>
    /\ UNCHANGED not_pipeline

\* CleanEnumValues.on_end, lines 594-595: the file is closed, nothing more
CleanEnumValuesOnEnd ==
    /\ AtEnd("CleanEnumValues")
    /\ AfterEnd
    /\ UNCHANGED <<pl_files, pl_once, cs_code, parent_classes, flag_enums>>
    /\ UNCHANGED not_pipeline

\* DefineEventsPass.on_end, lines 635-637
DefineEventsOnEnd ==
    /\ AtEnd("DefineEventsPass")
    /\ pl_files' = [pl_files EXCEPT
                       !["_events.i"] = Written(@, EventsFooter)]
    /\ AfterEnd
    /\ UNCHANGED <<pl_once, cs_code, parent_classes, flag_enums>>
    /\ UNCHANGED not_pipeline

\* the pipeline is run again in the same process over the same tree: new
\* pass instances, the class attributes and the output directory as they are
PipelineRunAgain ==
    /\ pl_phase = "done"
    /\ pl_run = 1
    /\ pl_run' = 2
    /\ pl_first' = pl_files
    /\ pl_phase' = "begin"
    /\ pl_pass' = 1
    /\ pl_pos' = 1
    /\ pl_action' = "ENTER"
    /\ pl_once' = [p \in DOMAIN pl_once |-> {}]
    /\ UNCHANGED <<pl_tu, pl_files, cs_code, parent_classes, flag_enums>>
    /\ UNCHANGED not_pipeline

PipelineNext ==
    \/ DefineConstantsOnBegin
    \/ CleanEnumValuesOnBegin
    \/ DefineEventsOnBegin
    \/ DispatchConstants
    \/ DispatchRefCounted
    \/ DispatchFindFlagEnums
    \/ DispatchCleanEnumValues
    \/ DispatchEvents
    \/ DefineConstantsOnEnd
    \/ DefineRefCountedOnEnd
    \/ CleanEnumValuesOnEnd
    \/ DefineEventsOnEnd
    \/ PipelineRunAgain

(***************************************************************************)
(* DefineEventsPass                                                        *)
(*                                                                         *)
(* A sibling is a record: kind, spelling, type spelling, and for a         *)
(* namespace its children, each given by the raw source text of its        *)
(* extent.                                                                 *)
(***************************************************************************)
Txt_param_time_step ==
    <<"U", "R", "H", "O", "3", "D", "_", "P", "A", "R", "A", "M", "(", "P",
      "_", "T", "I", "M", "E", "S", "T", "E", "P", ",", " ", "T", "i", "m",
      "e", "S", "t", "e", "p", ")", ";">>

Txt_param_b ==
    <<"U", "R", "H", "O", "3", "D", "_", "P", "A", "R", "A", "M", "(", "P",
      "_", "B", ",", "b", ")", ";", " ", " ">>

Txt_plain_constant ==
    <<"s", "t", "a", "t", "i", "c", " ", "c", "o", "n", "s", "t", " ", "i",
      "n", "t", " ", "C", "O", "U", "N", "T", " ", "=", " ", "1">>

Whitespace == {" ", "\t", "\n", "\r"}

Digits == {"0", "1", "2", "3", "4", "5", "6", "7", "8", "9"}

\* [a-z0-9_] under re.IGNORECASE
IsWordChar(c) == IsLowerChar(c) \/ IsUpperChar(c) \/ c \in Digits \cup {"_"}

\* re_param_name.match(text), line 624:
\* URHO3D_PARAM\(([^,]+),\s*([a-z0-9_]+)\);\s* under re.IGNORECASE.
\* [ok |-> whether there is a match, name |-> group(2)]
MatchParamName(text) ==
    LET prefix == <<"u", "r", "h", "o", "3", "d", "_", "p", "a", "r", "a", "m",
                    "(">>
        end == Len(text) + 1
        commas == {i \in Len(prefix) + 1..Len(text) : text[i] = ","}
        comma == IF commas = {} THEN end
                 ELSE CHOOSE i \in commas : \A j \in commas : i <= j
        after_space == CHOOSE i \in comma + 1..end + 1 :
                          /\ i >= end \/ text[i] \notin Whitespace
                          /\ \A j \in comma + 1..i - 1 : text[j] \in Whitespace
        after_name == CHOOSE i \in after_space..end + 1 :
                         /\ i >= end \/ ~IsWordChar(text[i])
                         /\ \A j \in after_space..i - 1 : IsWordChar(text[j])
    IN  IF /\ StartsWith(StrLower(text), prefix)
           /\ comma > Len(prefix) + 1
           /\ comma < end
           /\ after_name > after_space
           /\ after_name + 1 <= Len(text)
           /\ text[after_name] = ")"
           /\ text[after_name + 1] = ";"
        THEN [ok |-> TRUE, name |-> SubSeq(text, after_space, after_name - 1)]
        ELSE [ok |-> FALSE, name |-> <<>>]

Sibling(kind, spelling, type, children) ==
    [kind |-> kind, spelling |-> spelling, type |-> type, children |-> children]

Txt_E_UPDATE == <<"E", "_", "U", "P", "D", "A", "T", "E">>

Txt_Update == <<"U", "p", "d", "a", "t", "e">>

ParamTexts == {Txt_param_time_step, Txt_param_b, Txt_plain_constant}

EventSiblingNodes ==
    { Sibling("VAR_DECL", Txt_E_UPDATE, "const Urho3D::StringHash", <<>>),
      Sibling("VAR_DECL", <<"E", "_", "X">>, "const Urho3D::StringHash", <<>>),
      Sibling("VAR_DECL", <<"E", "_", "X">>, "const int", <<>>),
      Sibling("FUNCTION_DECL", <<"f">>, "void ()", <<>>) }
    \cup { Sibling("NAMESPACE", n, "", params) :
             n \in {Txt_Update, <<"X">>},
             params \in UNION {[1..k -> ParamTexts] : k \in 0..MaxMembers} }

\* no name is declared twice among the siblings
EventSiblings ==
    { sib \in UNION {[1..n -> EventSiblingNodes] : n \in 0..MaxNodes} :
        \A i, j \in 1..Len(sib) :
            (sib[i].kind = sib[j].kind /\ sib[i].spelling = sib[j].spelling)
                => i = j }

\* line 639
IsEventConstant(node) ==
    /\ node.kind = "VAR_DECL"
    /\ node.type = "const Urho3D::StringHash"
    /\ StartsWith(node.spelling, <<"E", "_">>)

\* str.replace('_', '')
RECURSIVE RemoveUnderscores(_)
RemoveUnderscores(text) ==
    IF text = <<>> THEN <<>>
    ELSE (IF Head(text) = "_" THEN <<>> ELSE <<Head(text)>>)
         \o RemoveUnderscores(Tail(text))

\* lines 646-647
IsParameterNamespace(next_node, node) ==
    /\ next_node.kind = "NAMESPACE"
    /\ StrLower(next_node.spelling)
          = StrLower(RemoveUnderscores(SubSeq(node.spelling, 3,
                                              Len(node.spelling))))

EventLine(line, name, value) == [line |-> line, name |-> name, value |-> value]

\* lines 648-650
DescriptorOpening(name) ==
    <<EventLine("class", name, <<>>), EventLine("_event", name, <<>>)>>

\* lines 658-663
DescriptorClosing(name) ==
    <<EventLine("constructor", name, <<>>), EventLine("operator", name, <<>>),
      EventLine("}", <<>>, <<>>), EventLine("singleton", name, <<>>)>>

\* lines 652-656: the fields written for the children, until one fails;
\* err names the exception that left the loop
RECURSIVE ParamFields(_)
ParamFields(params) ==
    IF params = <<>> THEN [err |-> "", lines |-> <<>>]
    ELSE LET m == MatchParamName(Head(params))
             var_name == camel_case(ArgStr(m.name))
             rest == ParamFields(Tail(params))
         IN  IF ~m.ok THEN [err |-> "AttributeError", lines |-> <<>>]
             ELSE IF var_name.err # ""
             THEN [err |-> var_name.err, lines |-> <<>>]
             ELSE [err |-> rest.err,
                   lines |-> <<EventLine("field", var_name.str, m.name)>>
                             \o rest.lines]

EventsInit ==
    /\ ev_siblings \in EventSiblings
    /\ ev_pos = 1
    /\ ev_action = "ENTER"
    /\ ev_phase = "begin"
    /\ ev_fp = <<>>
    /\ ev_closed = FALSE
    /\ ev_ret = "none"

EventsIdle ==
    /\ ev_siblings = <<>>
    /\ ev_pos = 0
    /\ ev_action = "idle"
    /\ ev_phase = "idle"
    /\ ev_fp = <<>>
    /\ ev_closed = FALSE
    /\ ev_ret = "none"

\* DefineEventsPass.on_begin, lines 626-633
EventsOnBegin ==
    /\ ev_phase = "begin"
    /\ ev_fp' = EventsHeader
    /\ ev_phase' = "walk"
    /\ ev_ret' = "True"
    /\ UNCHANGED <<ev_siblings, ev_pos, ev_action, ev_closed>>
    /\ UNCHANGED not_events

EventsWalking == ev_phase = "walk" /\ ev_pos <= Len(ev_siblings)

\* the dispatch after this one: the node's EXIT, then the next node
EventsAdvance ==
    IF ev_action = "ENTER"
    THEN ev_action' = "EXIT" /\ ev_pos' = ev_pos
    ELSE ev_action' = "ENTER" /\ ev_pos' = ev_pos + 1

\* whether the node visited is an event constant followed by its parameter
\* namespace: lines 639-647
OpensDescriptor ==
    /\ IsEventConstant(ev_siblings[ev_pos])
    /\ ev_pos < Len(ev_siblings)
    /\ IsParameterNamespace(ev_siblings[ev_pos + 1], ev_siblings[ev_pos])

\* visit of a node for which nothing is written: lines 639-647 and 665
EventsVisitOther ==
    /\ EventsWalking
    /\ ~OpensDescriptor
    /\ ev_ret' = IF IsEventConstant(ev_siblings[ev_pos])
                    /\ ev_pos = Len(ev_siblings)
                 THEN "False" ELSE "True"
    /\ EventsAdvance
    /\ UNCHANGED <<ev_siblings, ev_phase, ev_fp, ev_closed>>
    /\ UNCHANGED not_events

\* visit of an event constant whose descriptor is written whole: lines
\* 648-665
EventsVisitDescriptor ==
    /\ EventsWalking
    /\ OpensDescriptor
    /\ LET next_node == ev_siblings[ev_pos + 1]
           fields == ParamFields(next_node.children)
       IN  /\ fields.err = ""
           /\ ev_fp' = ev_fp \o DescriptorOpening(next_node.spelling)
                             \o fields.lines
                             \o DescriptorClosing(next_node.spelling)
    /\ ev_ret' = "True"
    /\ EventsAdvance
    /\ UNCHANGED <<ev_siblings, ev_phase, ev_closed>>
    /\ UNCHANGED not_events

\* visit of an event constant that raises inside the loop of lines 652-656:
\* the opening and the fields before the failing child are written, the
\* exception leaves visit and ends the run before on_end
EventsVisitRaise ==
    /\ EventsWalking
    /\ OpensDescriptor
    /\ LET next_node == ev_siblings[ev_pos + 1]
           fields == ParamFields(next_node.children)
       IN  /\ fields.err # ""
           /\ ev_fp' = ev_fp \o DescriptorOpening(next_node.spelling)
                             \o fields.lines
    /\ ev_ret' = "raised"
    /\ ev_phase' = "raised"
    /\ UNCHANGED <<ev_siblings, ev_pos, ev_action, ev_closed>>
    /\ UNCHANGED not_events

\* DefineEventsPass.on_end, lines 635-637
EventsOnEnd ==
    /\ ev_phase = "walk"
    /\ ev_pos > Len(ev_siblings)
    /\ ev_fp' = ev_fp \o EventsFooter
    /\ ev_closed' = TRUE
    /\ ev_phase' = "ended"
    /\ ev_ret' = "None"
    /\ UNCHANGED <<ev_siblings, ev_pos, ev_action>>
    /\ UNCHANGED not_events

EventsNext ==
    \/ EventsOnBegin
    \/ EventsVisitOther
    \/ EventsVisitDescriptor
    \/ EventsVisitRaise
    \/ EventsOnEnd

(***************************************************************************)
(* Specifications                                                          *)
(***************************************************************************)
\* the identifier normalizer
InitIdent ==
    IdentInit /\ RefIdle /\ PropIdle /\ ConstIdle /\ EnumIdle
    /\ PipelineIdle /\ EventsIdle

SpecIdent == InitIdent /\ [][IdentNext]_vars

\* DefineRefCountedPass over one translation unit
InitRef ==
    RefInit /\ IdentIdle /\ PropIdle /\ ConstIdle /\ EnumIdle
    /\ PipelineIdle /\ EventsIdle

SpecRef == InitRef /\ [][RefNext]_vars

\* DefineRefCountedPass over declarations whose bases are recorded by name
SpecRefNamed == InitRef /\ [][RefNamedNext]_vars

\* DefinePropertiesPass over one class declaration
InitProp ==
    PropInit /\ IdentIdle /\ RefIdle /\ ConstIdle /\ EnumIdle
    /\ PipelineIdle /\ EventsIdle

SpecProp == InitProp /\ [][PropNext]_vars

\* DefineConstantsPass over one translation unit
InitConst ==
    ConstInit /\ IdentIdle /\ RefIdle /\ PropIdle /\ EnumIdle
    /\ PipelineIdle /\ EventsIdle

SpecConst == InitConst /\ [][ConstNext]_vars

\* FindFlagEnums and CleanEnumValues over one translation unit
InitEnum ==
    EnumInit /\ IdentIdle /\ RefIdle /\ PropIdle /\ ConstIdle
    /\ PipelineIdle /\ EventsIdle

SpecEnum == InitEnum /\ [][EnumNext]_vars

\* the registered passes run as one pipeline, twice in one process
InitPipeline ==
    PipelineInit /\ IdentIdle /\ RefIdle /\ PropIdle /\ ConstIdle /\ EnumIdle
    /\ EventsIdle

SpecPipeline == InitPipeline /\ [][PipelineNext]_vars

\* DefineEventsPass over the children of one namespace
InitEvents ==
    EventsInit /\ IdentIdle /\ RefIdle /\ PropIdle /\ ConstIdle /\ EnumIdle
    /\ PipelineIdle

SpecEvents == InitEvents /\ [][EventsNext]_vars

(***************************************************************************)
(* Properties                                                              *)
(***************************************************************************)
\* the classes reachable from those of S by zero or more declared base edges
RECURSIVE BaseClosure(_, _)
BaseClosure(tree, S) ==
    LET T == S \cup UNION {tree[k] : k \in S \cap DOMAIN tree}
    IN  IF T = S THEN S ELSE BaseClosure(tree, T)

Reaches(tree, c, b) == b \in BaseClosure(tree, {c})

\* C3: is_subclass_of(class, base) returns True exactly when base is reachable
\* from class by zero or more declared base edges, returns False otherwise,
\* and never raises, for every pair of class names of an acyclic hierarchy.
C3_SubclassIsReachability ==
    rc_query # <<>> =>
        rc_ret = IF Reaches(rc_tree, rc_query[1], rc_query[2])
                 THEN "True" ELSE "False"

DeclaresBase(c) == c \in rc_visited /\ rc_tree[c] # {}

\* C4 as stated: after on_end, _refcounted.i holds exactly one directive for
\* each visited class that declares a base and reaches Urho3D::RefCounted
\* through one or more base edges, and none for any other class.
C4_DirectiveIffOneOrMoreEdges ==
    rc_phase = "ended" =>
        \A c \in ClassNames :
            rc_out[c] = IF /\ DeclaresBase(c)
                           /\ \E b \in rc_tree[c] :
                                 Reaches(rc_tree, b, RefCountedRoot)
                        THEN 1 ELSE 0

\* C4 amended: on_end completes, and _refcounted.i holds exactly one
\* directive for each visited class that declares a base and is
\* Urho3D::RefCounted itself or reaches it through base edges, and none for
\* any other class.
C4_DirectiveIffZeroOrMoreEdges ==
    /\ rc_phase # "raised"
    /\ rc_phase = "ended" =>
          \A c \in ClassNames :
              rc_out[c] = IF /\ DeclaresBase(c)
                             /\ Reaches(rc_tree, c, RefCountedRoot)
                          THEN 1 ELSE 0

\* on_end has written a directive for a class that reaches the root only
\* through an intermediate base, and none for another visited class
C4_Witness ==
    /\ rc_phase = "ended"
    /\ \E c \in ClassNames :
          /\ DeclaresBase(c)
          /\ RefCountedRoot \notin rc_tree[c]
          /\ c # RefCountedRoot
          /\ rc_out[c] = 1
    /\ \E d \in rc_visited : rc_out[d] = 0

\* the segments of s when a new segment starts at each uppercase letter
RECURSIVE SegmentsAtUpper(_, _)
SegmentsAtUpper(s, cur) ==
    IF s = <<>> THEN (IF cur = <<>> THEN <<>> ELSE <<cur>>)
    ELSE IF IsUpperChar(Head(s)) /\ cur # <<>>
         THEN <<cur>> \o SegmentsAtUpper(Tail(s), <<Head(s)>>)
         ELSE SegmentsAtUpper(Tail(s), Append(cur, Head(s)))

LowerAll(parts) == [i \in 1..Len(parts) |-> StrLower(parts[i])]

\* every character of name is an uppercase letter
AllUppercase(name) ==
    name # <<>> /\ \A i \in 1..Len(name) : IsUpperChar(name[i])

ClaimedSplit(name) ==
    IF Contains(name, "_") THEN LowerAll(SplitUnderscore(name, <<>>))
    ELSE IF AllUppercase(name) THEN <<StrLower(name)>>
    ELSE LowerAll(SegmentsAtUpper(name, <<>>))

\* C5: split_identifier(name) is the lowercased underscore-separated pieces
\* when name contains an underscore, the single lowercased segment when name
\* is all-uppercase, and otherwise the lowercased pieces that start at each
\* uppercase letter.
C5_SplitAsDocumented ==
    id_call = "split_identifier" => id_ret = RetList(ClaimedSplit(id_name))

CapitalizeOrEmpty(part) == IF part = <<>> THEN <<>> ELSE Capitalize(part)

ClaimedCamel(parts) ==
    Join([i \in 1..Len(parts) |-> CapitalizeOrEmpty(parts[i])])

\* C6: camel_case of a pre-split sequence of non-empty lowercase segments
\* completes without error and yields the segments concatenated with each
\* first character uppercased, the same result as camel_case of the raw name.
C6_CamelCaseAcceptsParts ==
    (/\ id_call = "camel_case_parts"
     /\ \A i \in 1..Len(id_prev.list) :
           id_prev.list[i] # <<>> /\ id_prev.list[i] = StrLower(id_prev.list[i]))
    => /\ id_ret.err = ""
       /\ Join(id_ret.list) \o id_ret.str = ClaimedCamel(id_prev.list)

\* C7: camel-casing the result of camel-casing a name returns it unchanged.
C7_CamelCaseIdempotent ==
    id_call = "camel_case_again" => id_ret.err = "" /\ id_ret.str = id_prev.str

\* the leading segment of name consists of the first characters of the
\* segments of parent_name at the same positions
ClaimedPrefix(name_parts, parent_parts) ==
    /\ name_parts # <<>>
    /\ \A i \in 1..Len(name_parts[1]) :
          /\ i <= Len(parent_parts)
          /\ parent_parts[i] # <<>>
          /\ parent_parts[i][1] = name_parts[1][i]

ClaimedRename(name, parent_name, is_private) ==
    LET parts == split_identifier(name)
        kept  == IF ClaimedPrefix(parts, split_identifier(parent_name))
                 THEN Tail(parts) ELSE parts
        text  == ClaimedCamel(kept)
    IN  IF is_private /\ text # <<>>
        THEN <<"_", LowerChar(text[1])>> \o Tail(text)
        ELSE IF is_private THEN <<"_">> ELSE text

\* C8: rename_identifier never raises and returns the camel-cased segments of
\* name without the leading segment when that segment abbreviates
\* parent_name, with the first character lowercased and an underscore
\* prepended when is_private.
C8_RenameReturnsString ==
    id_call = "rename_identifier" =>
        /\ id_ret.err = ""
        /\ id_ret.str = ClaimedRename(id_name, id_parent, id_private)

\* the traversal of the class declaration is over
PropDone == pr_phase = "walk" /\ pr_pos > Len(Visits(pr_tree))

IsFlatClass(tree) ==
    /\ tree.kind = "CLASS_DECL"
    /\ \A i \in 1..Len(tree.members) : tree.members[i].members = <<>>
                                       /\ tree.members[i].kind # "CLASS_DECL"
                                       /\ tree.members[i].kind # "STRUCT_DECL"

\* the getter of C1: GetX, public, non-static, non-virtual, no parameters, a
\* non-void result, a spelling no sibling shares, and no public sibling whose
\* camel-cased name is X
C1_AcceptedGetter(tree, k) ==
    LET m == tree.members[k]
    IN  /\ m.kind = "CXX_METHOD"
        /\ StartsWith(m.spelling, Str_Get)
        /\ m.access = "public" /\ ~m.static /\ ~m.virtual
        /\ m.args = <<>> /\ m.result # "void"
        /\ \A j \in 1..Len(tree.members) :
              /\ j # k => tree.members[j].spelling # m.spelling
              /\ tree.members[j].access = "public" =>
                    camel_case(ArgStr(tree.members[j].spelling)).str
                        # AttributeName(m)

\* the setter of C1: SetX, public, non-virtual, non-static, one parameter
\* whose canonical type is the canonical type of the getter's result
C1_MatchingSetter(tree, k) ==
    \E j \in 1..Len(tree.members) :
        LET n == tree.members[j]
        IN  /\ n.kind = "CXX_METHOD"
            /\ n.access = "public" /\ ~n.virtual /\ ~n.static
            /\ n.spelling = Str_Set \o AttributeName(tree.members[k])
            /\ Len(n.args) = 1
            /\ Canonical(n.args[1]) = Canonical(tree.members[k].result)

\* C1: for a class with an accepted getter GetX, the block emitted on leaving
\* the class holds exactly one property X, which has a set body exactly when
\* the class has a matching setter SetX (by canonical type) and is read-only
\* otherwise.  Stated for a class without nested records.
C1_PropertyPairedByCanonicalType ==
    (PropDone /\ IsFlatClass(pr_tree)) =>
        \A k \in 1..Len(pr_tree.members) :
            C1_AcceptedGetter(pr_tree, k) =>
                /\ Len(pr_out) = 1
                /\ pr_out[1].cls = pr_tree.fqn
                /\ LET lines == pr_out[1].properties
                       decls == {i \in 1..Len(lines) :
                                    /\ lines[i].line = "decl"
                                    /\ lines[i].name =
                                          AttributeName(pr_tree.members[k])}
                   IN  /\ Cardinality(decls) = 1
                       /\ \A i \in decls :
                             /\ lines[i + 1].line = "get"
                             /\ (lines[i + 2].line = "set")
                                   <=> C1_MatchingSetter(pr_tree, k)

\* the next visit enters a public, non-static method named Get... or Is...
\* that is virtual or shares its spelling with a sibling
C2_RejectedGetterNext ==
    /\ Walking
    /\ NextVisit.action = "ENTER"
    /\ NextVisit.node.kind = "CXX_METHOD"
    /\ NextVisit.node.access = "public"
    /\ ~NextVisit.node.static
    /\ \/ StartsWith(NextVisit.node.spelling, Str_Get)
       \/ StartsWith(NextVisit.node.spelling, Str_Is)
    /\ \/ NextVisit.node.virtual
       \/ \E i, j \in 1..Len(NextVisit.parent.members) :
             /\ i # j
             /\ NextVisit.parent.members[i].spelling = NextVisit.node.spelling
             /\ NextVisit.parent.members[j].spelling = NextVisit.node.spelling

LiteralKinds == {"INTEGER_LITERAL", "FLOATING_LITERAL", "STRING_LITERAL"}

\* the initializer below its implicit conversions
RECURSIVE BelowConversions(_)
BelowConversions(expr) ==
    IF expr.kind = "UNEXPOSED_EXPR" /\ Len(expr.children) = 1
    THEN BelowConversions(expr.children[1])
    ELSE expr

\* a literal, or a sign applied to one literal
SimpleLiteral(expr) ==
    \/ expr.kind \in LiteralKinds
    \/ /\ expr.kind = "UNARY_OPERATOR"
       /\ Len(expr.children) = 1
       /\ expr.children[1].kind \in LiteralKinds

WholeInitializerIsLiteral(decl) ==
    /\ Len(decl.children) = 1
    /\ SimpleLiteral(BelowConversions(decl.children[1]))

CompoundInitializer(decl) ==
    /\ Len(decl.children) = 1
    /\ Len(BelowConversions(decl.children[1]).children) > 1

MappedOrStringType(decl) ==
    \/ decl.type.spelling \in {"const ea::string", "const char*"}
    \/ decl.type.builtin /\ BuiltinToCs(decl.type.kind) # ""

Considered(decl) ==
    /\ decl.kind = "VAR_DECL"
    /\ decl.in_namespace
    /\ decl.type.const
    /\ ~decl.flagset_family
    /\ ~StartsWith(decl.spelling, <<"E", "_">>)
    /\ ~StartsWith(decl.spelling, <<"P", "_">>)

CountLines(lines, directive) ==
    Cardinality({i \in 1..Len(lines) : lines[i].line = directive})

C9_VisitOfConsidered ==
    (AtDecl /\ Considered(NextDecl) /\ ct_pos' = ct_pos + 1) =>
        LET native == Len(cs_code') - Len(cs_code)
            forwarding == CountLines(ct_fp', "%constant")
                          - CountLines(ct_fp, "%constant")
        IN  /\ native + forwarding = 1
            /\ native = 1 => /\ WholeInitializerIsLiteral(NextDecl)
                             /\ MappedOrStringType(NextDecl)
            /\ CompoundInitializer(NextDecl) => forwarding = 1

C9_LiteralOnlyForSimpleLiteral == [][C9_VisitOfConsidered]_vars

\* the part of C9 the code keeps: exactly one form per considered
\* declaration, and a native literal only for a mapped builtin or string type
C9_ExactlyOneForm ==
    [][(AtDecl /\ Considered(NextDecl) /\ ct_pos' = ct_pos + 1) =>
        LET native == Len(cs_code') - Len(cs_code)
            forwarding == CountLines(ct_fp', "%constant")
                          - CountLines(ct_fp, "%constant")
        IN  /\ native + forwarding = 1
            /\ native = 1 => MappedOrStringType(NextDecl)]_vars

(***************************************************************************)
(* C10: with FindFlagEnums registered before CleanEnumValues and both      *)
(* visiting each node of one traversal in registration order, once the     *)
(* traversal is over an enum declaration has the [global::System.Flags]    *)
(* directive exactly when an IsFlagSet marker anywhere in the translation  *)
(* unit names its type spelling, wherever that marker stands; and          *)
(* flag_enums is not written after CleanEnumValues first read it.          *)
(***************************************************************************)
EnumDone == en_action \in {"ENTER", "EXIT"} /\ en_pos > Len(en_tu)

MarkedAnywhere(type_spelling) ==
    \E j \in 1..Len(en_tu) :
        IsMarker(en_tu[j]) /\ en_tu[j].type_spelling = type_spelling

HasFlagsDirective(type_spelling) ==
    \E k \in 1..Len(en_fp) : en_fp[k] = FlagsLine(type_spelling)

C10_DirectiveIffMarked ==
    EnumDone =>
        \A i \in 1..Len(en_tu) :
            en_tu[i].kind = "ENUM_DECL" =>
                (HasFlagsDirective(en_tu[i].type_spelling)
                    <=> MarkedAnywhere(en_tu[i].type_spelling))

C10_NoWriteAfterFirstRead == en_read => flag_enums' = flag_enums

C10_FlagsForEveryMarkedEnum ==
    [](C10_DirectiveIffMarked) /\ [][C10_NoWriteAfterFirstRead]_vars

\* the half of C10 the code keeps: no enum without a marker has the directive
C10_NoDirectiveWithoutMarker ==
    \A i \in 1..Len(en_tu) :
        (en_tu[i].kind = "ENUM_DECL"
         /\ HasFlagsDirective(en_tu[i].type_spelling))
            => MarkedAnywhere(en_tu[i].type_spelling)

(***************************************************************************)
(* C11: running the full pipeline (on_begin, traversal, on_end of every    *)
(* registered pass) twice over the same tree, the second run starting from *)
(* the class-level accumulators and the output directory the first run     *)
(* left, produces output artifacts identical to those of the first run.    *)
(***************************************************************************)
PipelineDone == pl_phase = "done"

C11_SecondRunSameArtifacts ==
    (PipelineDone /\ pl_run = 2) => pl_files = pl_first

\* the artifacts that do come out the same: whatever the first run left in
\* parent_classes, _refcounted.i and _events.i are those of the first run
C11_RefCountedAndEventsSame ==
    (PipelineDone /\ pl_run = 2) =>
        /\ pl_files["_refcounted.i"] = pl_first["_refcounted.i"]
        /\ pl_files["_events.i"] = pl_first["_events.i"]

(***************************************************************************)
(* C12: after the pipeline has finished, no output artifact of any pass    *)
(* exists as a zero-byte file; an artifact that received no content has    *)
(* been deleted.                                                           *)
(***************************************************************************)
ZeroByte(file) == file.exists /\ file.lines = <<>>

C12_NoZeroByteArtifact ==
    PipelineDone => \A f \in Artifacts : ~ZeroByte(pl_files[f])

(***************************************************************************)
(* C13: over nested class declarations, once the traversal is over every   *)
(* property synthesized from an accepted getter of class C is emitted in   *)
(* exactly one block, the %typemap(cscode) block of C; no block holds a    *)
(* visibility directive of a method of another class; and no accepted      *)
(* getter's property is lost.                                              *)
(***************************************************************************)
\* every record of the tree is a class
RECURSIVE OnlyClasses(_)
OnlyClasses(node) ==
    /\ node.kind \in {"CLASS_DECL", "STRUCT_DECL"} => node.kind = "CLASS_DECL"
    /\ \A i \in 1..Len(node.members) : OnlyClasses(node.members[i])

\* the visits that accept a getter
AcceptedGetters(tree) ==
    { k \in 1..Len(Visits(tree)) :
        /\ Visits(tree)[k].action = "ENTER"
        /\ Visits(tree)[k].node.kind = "CXX_METHOD"
        /\ GetterVerdict(Visits(tree)[k].node, Visits(tree)[k].parent) = "accept" }

\* the blocks written for class cls that expose the getter
BlocksOf(cls, spelling) ==
    { b \in 1..Len(pr_out) :
        /\ pr_out[b].cls = cls
        /\ \E l \in 1..Len(pr_out[b].properties) :
              pr_out[b].properties[l] = PropertyLine("get", "", spelling) }

\* the blocks that lower the visibility of the method cls::spelling
BlocksHiding(cls, spelling) ==
    { b \in 1..Len(pr_out) :
        \E l \in 1..Len(pr_out[b].method_attribs) :
            pr_out[b].method_attribs[l] = Modifier(cls, spelling) }

C13_PropertyInItsClassBlockOnly ==
    (PropDone /\ OnlyClasses(pr_tree)) =>
        /\ \A k \in AcceptedGetters(pr_tree) :
              LET cls == Visits(pr_tree)[k].parent.fqn
                  spelling == Visits(pr_tree)[k].node.spelling
              IN  /\ Cardinality(BlocksOf(cls, spelling)) = 1
                  /\ BlocksHiding(cls, spelling) = BlocksOf(cls, spelling)
        /\ \A b \in 1..Len(pr_out) :
              \A l \in 1..Len(pr_out[b].method_attribs) :
                  pr_out[b].method_attribs[l].cls = pr_out[b].cls

\* what C13 says of a class that holds no other class
C13_FlatClassBlock ==
    (PropDone /\ IsFlatClass(pr_tree) /\ pr_tree.kind = "CLASS_DECL") =>
        \A k \in AcceptedGetters(pr_tree) :
            LET cls == Visits(pr_tree)[k].parent.fqn
                spelling == Visits(pr_tree)[k].node.spelling
            IN  /\ Cardinality(BlocksOf(cls, spelling)) = 1
                /\ BlocksHiding(cls, spelling) = BlocksOf(cls, spelling)

(***************************************************************************)
(* C14: a public, non-static, non-virtual, zero-parameter, non-void method *)
(* named Is<X>, whose spelling is unique in its class and whose name no    *)
(* other member's camel-cased name equals, is accepted as a getter: its    *)
(* visit appends a property named by the method's full spelling.           *)
(***************************************************************************)
IsPrefixedCandidate(getter, parent) ==
    /\ getter.kind = "CXX_METHOD"
    /\ getter.access = "public"
    /\ ~getter.static
    /\ ~getter.virtual
    /\ Len(getter.args) = 0
    /\ getter.result # "void"
    /\ StartsWith(getter.spelling, Str_Is)
    /\ Len(getter.spelling) > Len(Str_Is)
    /\ Overloads(parent.members, getter.spelling) = 1
    /\ \A i \in 1..Len(parent.members) :
          parent.members[i].spelling # getter.spelling =>
              LET cased == camel_case(ArgStr(parent.members[i].spelling))
              IN  cased.err = "" /\ cased.str # getter.spelling

C14_VisitOfIsGetter ==
    (/\ Walking
     /\ NextVisit.action = "ENTER"
     /\ NextVisit.parent.kind = "CLASS_DECL"
     /\ pr_defined
     /\ IsPrefixedCandidate(NextVisit.node, NextVisit.parent)
     /\ pr_pos' = pr_pos + 1) =>
        /\ Len(properties') > Len(properties)
        /\ properties'[Len(properties) + 1].line = "decl"
        /\ properties'[Len(properties) + 1].name = NextVisit.node.spelling

C14_IsGetterAccepted == [][C14_VisitOfIsGetter]_vars

(***************************************************************************)
(* C15: every event-descriptor block DefineEventsPass starts writing is    *)
(* completed in the same visit (constructor, implicit conversion, closing  *)
(* brace, singleton line), with one field per parameter child that matches *)
(* the URHO3D_PARAM pattern, in declaration order; no visit aborts the     *)
(* pass; and the artifact is never left with an opened, unclosed           *)
(* descriptor.                                                             *)
(***************************************************************************)
\* one field per child whose text matches the pattern, in order
RECURSIVE FieldsOfMatching(_)
FieldsOfMatching(params) ==
    IF params = <<>> THEN <<>>
    ELSE LET m == MatchParamName(Head(params))
         IN  (IF m.ok
              THEN <<EventLine("field", camel_case(ArgStr(m.name)).str, m.name)>>
              ELSE <<>>) \o FieldsOfMatching(Tail(params))

CountEventLines(lines, kind) ==
    Cardinality({i \in 1..Len(lines) : lines[i].line = kind})

C15_VisitOfEvent ==
    (EventsWalking /\ OpensDescriptor) =>
        \/ UNCHANGED vars
        \/ LET next_node == ev_siblings[ev_pos + 1]
           IN  ev_fp' = ev_fp \o DescriptorOpening(next_node.spelling)
                              \o FieldsOfMatching(next_node.children)
                              \o DescriptorClosing(next_node.spelling)

C15_NoOpenDescriptor ==
    /\ ev_phase # "raised"
    /\ CountEventLines(ev_fp, "class") = CountEventLines(ev_fp, "singleton")

C15_EveryDescriptorCompleted ==
    [][C15_VisitOfEvent]_vars /\ []C15_NoOpenDescriptor

\* what C15 says of an event constant that is the last sibling, or whose
\* parameter namespace holds only URHO3D_PARAM children
AllParamsMatch ==
    \A i \in 1..Len(ev_siblings) :
        \A k \in 1..Len(ev_siblings[i].children) :
            MatchParamName(ev_siblings[i].children[k]).ok

C15_CompletedWhenAllMatch ==
    [][AllParamsMatch => C15_VisitOfEvent]_vars
    /\ [](AllParamsMatch => C15_NoOpenDescriptor)

(***************************************************************************)
(* C16: is_subclass_of(class, base) terminates with a boolean result for   *)
(* every hierarchy map the visit step records, a map with a cycle of base  *)
(* edges included: neither on_end nor a query about a class with recorded  *)
(* bases ends in unbounded recursion.                                      *)
(***************************************************************************)
C16_TerminatesWithBoolean ==
    /\ rc_phase # "raised"
    /\ (rc_query # <<>> /\ rc_query[1] \in DOMAIN parent_classes)
           => rc_ret \in {"True", "False"}

=========================================================================
